---- MODULE Spec2Model ----
(***************************************************************************)
(* Model of packages/qwik/src/core/v2/shared/shared-serialization.ts:      *)
(* the serialization context (object map, root list), the graph walker     *)
(* that breaks circular dependencies and awaits promises, the encoder of   *)
(* the roots array and the lazy deserialization proxy.                     *)
(*                                                                         *)
(* Values.  A value is an integer: v >= 1 is the identity of a heap        *)
(* object (heap[v]), v <= 0 is the finite number -v (a primitive that the  *)
(* context never tracks by identity).  Strings are heap entries of kind    *)
(* "string" holding their character codes; every scenario gives distinct   *)
(* strings distinct contents, so identity and value equality coincide.     *)
(***************************************************************************)
EXTENDS Integers, Sequences, FiniteSets, TLC

VARIABLES
  heap,              \* the live object graph: object id -> object
  decl,              \* the values the caller declares as roots, in order
  pc,                \* position of the session
  map,               \* createSerializationContext: map (object -> id)
  roots,             \* createSerializationContext: roots
  rootIdx,           \* $breakCircularDepsAndAwaitPromises$: i
  objRootsLength,    \* $breakCircularDepsAndAwaitPromises$: objRootsLength
  rootObj,           \* walker: rootObj of the current walk
  discoveredValues,  \* walker: worklist
  promises,          \* outstanding promises of the current drain
  rootIdOf,          \* obj[SERIALIZABLE_ROOT_ID], where set
  settled,           \* promise id -> "pending" | "fulfilled" | "rejected"
  reactions,         \* promise id -> sequence of reactions attached by then()
  jobs,              \* the microtask queue
  awaiting,          \* promises Promise.allSettled still waits for
  hist,              \* observation log (ids handed out, scans, registrations)
  syncFns,           \* createSerializationContext: syncFns (syncFnMap is its index)
  nodes,             \* the document: what the writer wrote, as JSON.parse returns it,
                     \* and the objects the deserializer allocates
  stack,             \* serialize: the containers being written, outermost first
  known,             \* the deserialized values the reader holds
  lastRead,          \* the latest property read: container, field, value returned,
                     \* and the runs of allocate and inflate it made
  lastCall           \* what the latest direct call of a function returned

ctxVars == <<map, roots>>
walkVars == <<rootIdx, objRootsLength, rootObj, discoveredValues>>
asyncVars == <<promises, rootIdOf, settled, reactions, jobs, awaiting>>
codecVars == <<syncFns, nodes, stack, known, lastRead, lastCall>>
vars == <<heap, decl, pc, map, roots, rootIdx, objRootsLength, rootObj,
          discoveredValues, promises, rootIdOf, settled, reactions, jobs,
          awaiting, hist, syncFns, nodes, stack, known, lastRead, lastCall>>

(***************************************************************************)
(* Bounds of the model.                                                    *)
(***************************************************************************)
MaxWork == 8       \* longest worklist the walker may build
MaxRoots == 3      \* longest root list the API specification may build
MaxDepth == 6      \* deepest nesting of containers the encoder may open
MaxText == 4       \* longest text handed to writeString on its own
MaxWrites == 1     \* property writes through the wrapper in one reading session
MaxToken == 3      \* longest token of a payload handed to restString
MaxTokens == 2     \* most tokens of such a payload
MaxBytes == 3      \* longest byte array written and read back
MaxProps == 3      \* most properties of a properties object read through the wrapper
MaxSubs == 2       \* most subscribers of a subscription manager written and parsed

(***************************************************************************)
(* Program constants.                                                      *)
(***************************************************************************)
MIN_SAFE_INTEGER == -2147483647   \* stands for Number.MIN_SAFE_INTEGER
ShortStringMax == 10              \* shouldTrackObj: obj.length > 10
SubscriptionProp_HOST == 1
SubscriptionProp_SIGNAL == 2

(***************************************************************************)
(* Sequence helpers.                                                       *)
(***************************************************************************)
Last(s) == s[Len(s)]
Front(s) == SubSeq(s, 1, Len(s) - 1)
Range(s) == {s[k] : k \in 1..Len(s)}

RECURSIVE Flatten(_)
Flatten(ss) == IF ss = <<>> THEN <<>> ELSE Head(ss) \o Flatten(Tail(ss))

\* Array.prototype.indexOf, 0-based, -1 when absent
RECURSIVE IndexFrom(_, _, _)
IndexFrom(s, x, k) ==
  IF k > Len(s) THEN -1 ELSE IF s[k] = x THEN k - 1 ELSE IndexFrom(s, x, k + 1)
IndexOf(s, x) == IndexFrom(s, x, 1)

\* Array.prototype.splice(start, 1) with JavaScript's negative start
Splice1(s, start) ==
  LET st == IF start < 0 THEN (IF Len(s) + start < 0 THEN 0 ELSE Len(s) + start)
            ELSE (IF start > Len(s) THEN Len(s) ELSE start)
  IN  IF st >= Len(s) THEN s
      ELSE SubSeq(s, 1, st) \o SubSeq(s, st + 2, Len(s))

(***************************************************************************)
(* Heap objects.                                                           *)
(*   kind   the runtime kind the code dispatches on                        *)
(*   refs   constituent values, in the order the code enumerates them      *)
(*   subs   subscriber tuples <<type, host, signal, ...>> of a signal or   *)
(*          of a store's subscription manager                              *)
(*   fate   how a promise settles: "resolve", "reject" or "never"          *)
(*   chars  the character codes of a string; of an error its message; of a *)
(*          derived signal its $funcStr$ (empty: undefined); of a QRL its  *)
(*          $symbol$; of a URL, date or regular expression its text        *)
(*   aux    of a QRL its $chunk$; of a derived signal $func$.toString()    *)
(***************************************************************************)
Obj(k, r) ==
  [kind |-> k, refs |-> r, subs |-> <<>>, fate |-> "none", chars |-> <<>>, aux |-> <<>>]
Sig(v, s) == [Obj("signal", <<v>>) EXCEPT !.subs = s]
Store(t, s) == [Obj("store", <<t>>) EXCEPT !.subs = s]
Prom(f, v) == [Obj("promise", <<v>>) EXCEPT !.fate = f]
Str(c) == [Obj("string", <<>>) EXCEPT !.chars = c]
Txt(k, c) == [Obj(k, <<>>) EXCEPT !.chars = c]
Qrl(chunk, symbol, captureRef) == [Obj("qrl", captureRef) EXCEPT !.chars = symbol, !.aux = chunk]
Derived(funcStr, func, args) == [Obj("derived", args) EXCEPT !.chars = funcStr, !.aux = func]
Err(message, props) == [Obj("error", props) EXCEPT !.chars = message]

IsObj(v) == v \in 1..Len(heap)
KindOf(v) == IF IsObj(v) THEN heap[v].kind ELSE "number"

\* typeof obj === 'function': lazy code references are callable (writeValue
\* reaches its isQrl test only under typeof value === 'function')
FunctionKinds == {"qrl", "component"}
\* typeof obj === 'number' and not Number.isFinite(obj): the heap holds the
\* numbers that are no integers
NotFiniteKinds == {"NaN", "Infinity", "-Infinity"}
\* the leaf classes of the walker's first test
LeafKinds == {"url", "date", "regexp", "error", "bytes", "usp", "formdata"}

TypeofObject(v) ==
  IsObj(v) /\ KindOf(v) \notin FunctionKinds \cup NotFiniteKinds \cup {"string"}

shouldTrackObj(v) ==
  \/ TypeofObject(v)
  \/ KindOf(v) = "string" /\ Len(heap[v].chars) > ShortStringMax

frameworkType(v) ==
  \/ TypeofObject(v) /\ KindOf(v) \in {"signal", "task", "jsx"}
  \/ KindOf(v) = "qrl"

\* isSignal: SignalImpl, SignalWrapper and SignalDerived are the signal classes
isSignal(v) == KindOf(v) \in {"signal", "wrapper", "derived"}

\* unwrapProxy: the target of a store proxy, any other value itself
unwrapProxy(v) == IF KindOf(v) = "store" THEN heap[v].refs[1] ELSE v

(***************************************************************************)
(* The serialization context: map, roots, $wasSeen$, $seen$, $addRoot$.    *)
(***************************************************************************)
HasEntry(m, v) == v \in DOMAIN m
Put(m, v, id) == [x \in (DOMAIN m) \cup {v} |-> IF x = v THEN id ELSE m[x]]

wasSeenIs(m, v, id) == HasEntry(m, v) /\ m[v] = id
IsRooted(m, v) == HasEntry(m, v) /\ m[v] # MIN_SAFE_INTEGER

seen_Unmarked(m, v) == m
seen(m, v) == Put(m, v, MIN_SAFE_INTEGER)

\* $addRoot$ as a function of the context: the id returned, the map and the
\* roots afterwards
addRootFresh(m, r, v) == ~HasEntry(m, v) \/ m[v] = MIN_SAFE_INTEGER
addRootId(m, r, v) == IF addRootFresh(m, r, v) THEN Len(r) ELSE m[v]
addRootMap_Stale(m, r, v) == m
addRootMap(m, r, v) == IF addRootFresh(m, r, v) THEN Put(m, v, Len(r)) ELSE m
addRootRoots(m, r, v) == IF addRootFresh(m, r, v) THEN Append(r, v) ELSE r

(***************************************************************************)
(* The observation log.  It records what the operations returned and did;  *)
(* no operation reads it.                                                  *)
(*   firstId     object -> the id its first $addRoot$ call returned        *)
(*   lastAdd     <<object, id>> of the latest $addRoot$ call               *)
(*   declared    the values the caller declared as roots                   *)
(*   registered  the promises the walker attached its callbacks to         *)
(*   scanned     the objects whose contents the walker pushed              *)
(*   tick        parity of the number of walker loop iterations            *)
(***************************************************************************)
HistInit ==
  [firstId |-> <<>>, lastAdd |-> <<>>, declared |-> {}, registered |-> {},
   scanned |-> {}, tick |-> 0, runs |-> 0, first |-> <<>>]

LogAdd(h, m, r, v) ==
  [h EXCEPT !.firstId = IF v \in DOMAIN h.firstId THEN h.firstId
                        ELSE Put(h.firstId, v, addRootId(m, r, v)),
            !.lastAdd = <<v, addRootId(m, r, v)>>]

(***************************************************************************)
(* breakCircularDependenciesAndResolvePromises: one iteration of the       *)
(* while loop pops one value.                                              *)
(***************************************************************************)
Elem(t, k) == IF k <= Len(t) THEN t[k] ELSE 0   \* t[k-1] of a tuple, undefined as 0

\* lines 732-810: the branch of the kind dispatch that scans o
ScanBranch(o) ==
  IF ~TypeofObject(o) \/ KindOf(o) \in LeafKinds THEN "primitive"
  ELSE IF KindOf(o) = "noserialize" THEN "skip"
  ELSE IF KindOf(o) = "set" THEN "set"
  ELSE IF KindOf(o) = "map" THEN "map"
  ELSE IF isSignal(o) THEN "signal"
  ELSE IF KindOf(o) = "task" THEN "task"
  ELSE IF KindOf(o) = "node" THEN "node"
  ELSE IF KindOf(o) = "jsx" THEN "jsx"
  ELSE IF KindOf(o) = "array" THEN "array"
  ELSE IF KindOf(o) = "qrl" THEN "qrl"
  ELSE IF KindOf(o) = "props" THEN "props"
  ELSE IF KindOf(o) = "promise" THEN "promise"
  ELSE IF KindOf(o) = "literal" THEN "literal"
  ELSE "throw"

\* lines 760-772: what the signal branch pushes
SignalPushes(o) ==
  IF KindOf(o) = "signal"
  THEN <<heap[o].refs[1]>> \o
       Flatten([k \in 1..Len(heap[o].subs) |->
         LET sub == heap[o].subs[k] IN
           <<Elem(sub, SubscriptionProp_HOST + 1)>> \o
           (IF o # Elem(sub, SubscriptionProp_SIGNAL + 1)
            THEN <<Elem(sub, SubscriptionProp_SIGNAL + 1)>> ELSE <<>>)])
  ELSE IF KindOf(o) = "wrapper" THEN <<heap[o].refs[1]>>
  ELSE <<>>

\* lines 718-727: a store proxy pushes its target and every subscriber
\* element from HOST on
StorePushes(o) ==
  <<unwrapProxy(o)>> \o
  Flatten([k \in 1..Len(heap[o].subs) |->
    SubSeq(heap[o].subs[k], SubscriptionProp_HOST + 1, Len(heap[o].subs[k]))])

\* the values a scan of o pushes, in push order; fresh is the identity of the
\* array a set or map scan creates
ScanPushes(o, fresh) ==
  LET b == ScanBranch(o) IN
  IF b = "set" THEN heap[o].refs
  ELSE IF b = "map" THEN heap[o].refs \o <<fresh>>
  ELSE IF b = "signal" THEN SignalPushes(o)
  ELSE IF b \in {"task", "jsx", "array", "props", "literal"} THEN heap[o].refs
  ELSE IF b = "qrl" THEN heap[o].refs
  ELSE <<>>

\* lines 790-801: then() on a promise; an already settled promise queues the
\* callback at once
ThenReactions(p, job) ==
  IF settled[p] = "pending" THEN [reactions EXCEPT ![p] = Append(@, job)]
  ELSE reactions
ThenJobs(p, job) ==
  IF settled[p] = "pending" THEN jobs ELSE Append(jobs, job)

\* one more iteration of the while loop at line 708
Tick(h) == [h EXCEPT !.tick = 1 - @]

WalkScan(obj, rest, isRoot) ==
  LET fresh == Len(heap) + 1
      b == ScanBranch(obj)
      m1 == IF isRoot THEN map ELSE seen(map, obj)
      h1 == [hist EXCEPT !.scanned = @ \cup {obj},
                         !.registered = IF b = "promise" THEN @ \cup {obj} ELSE @]
  IN
  IF b = "throw"
  THEN /\ pc' = "error"
       /\ map' = m1
       /\ discoveredValues' = rest
       /\ hist' = Tick(h1)
       /\ UNCHANGED <<heap, roots, promises, rootIdOf, reactions, jobs>>
  ELSE /\ pc' = pc
       /\ discoveredValues' = rest \o ScanPushes(obj, fresh)
       /\ IF b \in {"set", "map"}
          THEN /\ heap' = Append(heap, Obj("array", heap[obj].refs))
               /\ map' = addRootMap(m1, roots, fresh)
               /\ roots' = addRootRoots(m1, roots, fresh)
               /\ rootIdOf' = Put(rootIdOf, obj, addRootId(m1, roots, fresh))
               /\ hist' = Tick(LogAdd(h1, m1, roots, fresh))
          ELSE /\ map' = m1
               /\ hist' = Tick(h1)
               /\ UNCHANGED <<heap, roots, rootIdOf>>
       /\ IF b = "promise"
          THEN /\ reactions' = ThenReactions(obj, [t |-> "cb", p |-> obj])
               /\ jobs' = ThenJobs(obj, [t |-> "cb", p |-> obj])
               /\ promises' = Append(promises, obj)
          ELSE UNCHANGED <<reactions, jobs, promises>>

WalkStep ==
  /\ pc = "walk"
  /\ discoveredValues # <<>>
  /\ LET obj == Last(discoveredValues)
         rest == Front(discoveredValues)
         isRoot == obj = rootObj
     IN
     IF ~(shouldTrackObj(obj) \/ frameworkType(obj))
     THEN /\ discoveredValues' = rest
          /\ hist' = Tick(hist)
          /\ UNCHANGED <<heap, pc, map, roots, promises, rootIdOf, reactions, jobs>>
     ELSE IF unwrapProxy(obj) # obj
     THEN /\ discoveredValues' = rest \o StorePushes(obj)
          /\ hist' = Tick(hist)
          /\ UNCHANGED <<heap, pc, map, roots, promises, rootIdOf, reactions, jobs>>
     ELSE IF ~HasEntry(map, obj) \/ isRoot
     THEN WalkScan(obj, rest, isRoot)
     ELSE IF map[obj] = MIN_SAFE_INTEGER
     THEN /\ map' = addRootMap(map, roots, obj)
          /\ roots' = addRootRoots(map, roots, obj)
          /\ hist' = Tick(LogAdd(hist, map, roots, obj))
          /\ discoveredValues' = rest
          /\ UNCHANGED <<heap, pc, promises, rootIdOf, reactions, jobs>>
     ELSE /\ discoveredValues' = rest
          /\ hist' = Tick(hist)
          /\ UNCHANGED <<heap, pc, map, roots, promises, rootIdOf, reactions, jobs>>
  /\ Len(discoveredValues') <= MaxWork
  /\ UNCHANGED <<decl, rootIdx, objRootsLength, rootObj, settled, awaiting>>
  /\ UNCHANGED codecVars

(***************************************************************************)
(* $breakCircularDepsAndAwaitPromises$: the loop over the roots present at *)
(* the call, then drain().                                                 *)
(***************************************************************************)
\* the caller declares a root: $addRoot$(v)
DeclareRoot ==
  /\ pc = "setup"
  /\ decl # <<>>
  /\ map' = addRootMap(map, roots, Head(decl))
  /\ roots' = addRootRoots(map, roots, Head(decl))
  /\ hist' = [LogAdd(hist, map, roots, Head(decl)) EXCEPT !.declared = @ \cup {Head(decl)}]
  /\ decl' = Tail(decl)
  /\ UNCHANGED <<heap, pc, rootIdx, objRootsLength, rootObj, discoveredValues,
                 promises, rootIdOf, settled, reactions, jobs, awaiting>>
  /\ UNCHANGED codecVars

\* lines 674-677
BeginBreak ==
  /\ pc = "setup"
  /\ decl = <<>>
  /\ pc' = "walk"
  /\ promises' = <<>>
  /\ objRootsLength' = Len(roots)
  /\ rootIdx' = 0
  /\ discoveredValues' = <<>>
  /\ UNCHANGED <<heap, decl, map, roots, rootObj, rootIdOf, settled, reactions,
                 jobs, awaiting, hist>>
  /\ UNCHANGED codecVars

\* lines 678-679 and 700: the next root starts a walk
WalkNextRoot ==
  /\ pc = "walk"
  /\ discoveredValues = <<>>
  /\ rootIdx < objRootsLength
  /\ rootObj' = roots[rootIdx + 1]
  /\ discoveredValues' = <<roots[rootIdx + 1]>>
  /\ rootIdx' = rootIdx + 1
  /\ UNCHANGED <<heap, decl, pc, map, roots, objRootsLength, promises, rootIdOf,
                 settled, reactions, jobs, awaiting, hist>>
  /\ UNCHANGED codecVars

\* lines 681-686: drain() either returns at once or waits for
\* Promise.allSettled(promises), which attaches one reaction per element
AllJob(p) == [t |-> "all", p |-> p]
DrainCompletes_NoCheck == TRUE
DrainCompletes == promises = <<>>
DrainReactions ==
  [q \in DOMAIN reactions |->
     IF settled[q] = "pending"
     THEN reactions[q] \o SelectSeq([k \in 1..Len(promises) |-> AllJob(promises[k])],
                                    LAMBDA j : j.p = q)
     ELSE reactions[q]]
DrainJobs(q) ==
  q \o SelectSeq([k \in 1..Len(promises) |-> AllJob(promises[k])],
                 LAMBDA j : settled[j.p] # "pending")
drain(q) ==
  IF DrainCompletes
  THEN /\ pc' = "drained"
       /\ jobs' = q
       /\ UNCHANGED <<reactions, awaiting>>
  ELSE /\ pc' = "await"
       /\ awaiting' = Len(promises)
       /\ reactions' = DrainReactions
       /\ jobs' = DrainJobs(q)

\* line 686: the walks are over, drain() is called
WalkEnd ==
  /\ pc = "walk"
  /\ discoveredValues = <<>>
  /\ rootIdx = objRootsLength
  /\ drain(jobs)
  /\ UNCHANGED <<heap, decl, map, roots, rootIdx, objRootsLength, rootObj,
                 discoveredValues, promises, rootIdOf, settled, hist>>
  /\ UNCHANGED codecVars

(***************************************************************************)
(* Promises and the microtask queue.  A promise settles outside of the     *)
(* engine's synchronous code; settling queues the reactions attached to it *)
(* in the order of their then() calls, and the queue runs first-in         *)
(* first-out while the engine is suspended.                                *)
(***************************************************************************)
BitNot(x) == -x - 1      \* ~x on 32-bit integers

Settle(p) ==
  /\ pc \in {"setup", "await"}
  /\ KindOf(p) = "promise"
  /\ settled[p] = "pending"
  /\ heap[p].fate # "never"
  /\ settled' = [settled EXCEPT ![p] = IF heap[p].fate = "resolve" THEN "fulfilled"
                                       ELSE "rejected"]
  /\ jobs' = jobs \o reactions[p]
  /\ reactions' = [reactions EXCEPT ![p] = <<>>]
  /\ UNCHANGED <<heap, decl, pc, map, roots, rootIdx, objRootsLength, rootObj,
                 discoveredValues, promises, rootIdOf, awaiting, hist>>
  /\ UNCHANGED codecVars

\* lines 792-799: the walker's settlement callbacks
CallbackRootId(p) ==
  IF settled[p] = "fulfilled"
  THEN addRootId(map, roots, heap[p].refs[1])
  ELSE BitNot(addRootId(map, roots, heap[p].refs[1]))
CallbackPromises_Keep(p) == promises
CallbackPromises_Last(p) == Front(promises)
CallbackPromises(p) == Splice1(promises, IndexOf(promises, p))

RunCallback ==
  /\ pc = "await"
  /\ jobs # <<>>
  /\ Head(jobs).t = "cb"
  /\ LET p == Head(jobs).p
         v == heap[p].refs[1]
     IN /\ rootIdOf' = Put(rootIdOf, p, CallbackRootId(p))
        /\ map' = addRootMap(map, roots, v)
        /\ roots' = addRootRoots(map, roots, v)
        /\ hist' = LogAdd(hist, map, roots, v)
        /\ promises' = CallbackPromises(p)
  /\ jobs' = Tail(jobs)
  /\ UNCHANGED <<heap, decl, pc, rootIdx, objRootsLength, rootObj, discoveredValues,
                 settled, reactions, awaiting>>
  /\ UNCHANGED codecVars

\* Promise.allSettled: the last element's reaction resolves the combined
\* promise, whose reaction is drain (line 683)
RunAllSettled ==
  /\ pc = "await"
  /\ jobs # <<>>
  /\ Head(jobs).t = "all"
  /\ awaiting' = awaiting - 1
  /\ jobs' = IF awaiting = 1 THEN Append(Tail(jobs), [t |-> "drain", p |-> 0])
             ELSE Tail(jobs)
  /\ UNCHANGED <<heap, decl, pc, map, roots, rootIdx, objRootsLength, rootObj,
                 discoveredValues, promises, rootIdOf, settled, reactions, hist>>
  /\ UNCHANGED codecVars

\* line 683: then(drain, drain)
RunDrain ==
  /\ pc = "await"
  /\ jobs # <<>>
  /\ Head(jobs).t = "drain"
  /\ drain(Tail(jobs))
  /\ UNCHANGED <<heap, decl, map, roots, rootIdx, objRootsLength, rootObj,
                 discoveredValues, promises, rootIdOf, settled, hist>>
  /\ UNCHANGED codecVars

(***************************************************************************)
(* Object graphs.  Each scenario is a heap and the list of values the      *)
(* caller declares as roots.                                               *)
(***************************************************************************)
Scn(h, d) == [heap |-> h, decl |-> d]
LongText == <<113, 119, 105, 107, 45, 115, 101, 114, 105, 97, 108>> \* "qwik-serial"

WalkScenarios == {
  \* r -> a, a.next = b, b.next = a
  Scn(<<Obj("literal", <<2>>), Obj("literal", <<3>>), Obj("literal", <<2>>)>>, <<1>>),
  \* the cycle passes through the declared root
  Scn(<<Obj("literal", <<2>>), Obj("literal", <<1>>)>>, <<1>>),
  Scn(<<Obj("literal", <<2>>), Obj("array", <<3, 0>>), Obj("literal", <<1>>)>>, <<1>>),
  \* both ends of the cycle are declared roots
  Scn(<<Obj("literal", <<2>>), Obj("literal", <<1>>)>>, <<1, 2>>),
  \* a declared root that references itself
  Scn(<<Obj("literal", <<1>>)>>, <<1>>),
  Scn(<<Obj("array", <<1, 2>>), Obj("literal", <<>>)>>, <<1>>),
  \* a declared root that references its own store proxy
  Scn(<<Obj("literal", <<2>>), Store(1, <<>>)>>, <<1>>),
  \* a declared store proxy whose target references the proxy
  Scn(<<Store(2, <<>>), Obj("literal", <<1>>)>>, <<1>>),
  \* one object referenced from two fields
  Scn(<<Obj("literal", <<2, 2>>), Obj("literal", <<-7>>)>>, <<1>>),
  \* one object with contents referenced from three elements
  Scn(<<Obj("array", <<2, 2, 2>>), Obj("literal", <<3>>), Obj("literal", <<>>)>>, <<1>>),
  \* one object referenced from a field and from a QRL capture
  Scn(<<Obj("literal", <<2, 3>>), Obj("literal", <<>>), Obj("qrl", <<2>>)>>, <<1>>),
  \* one object referenced from a field and from a derived signal's argument
  Scn(<<Obj("literal", <<2, 3>>), Obj("literal", <<>>), Obj("derived", <<2>>)>>, <<1>>),
  \* set and map contents, shared with a field
  Scn(<<Obj("array", <<2, 3, 4>>), Obj("set", <<4, -1>>), Obj("map", <<-1, 4>>),
        Obj("literal", <<>>)>>, <<1>>),
  \* a signal with a subscriber, its value shared with the host
  Scn(<<Obj("literal", <<2>>), Sig(3, <<<<1, 4, 2, 3>>>>), Obj("literal", <<>>),
        Obj("literal", <<3>>)>>, <<1>>),
  \* a task: element, QRL and state signal; a signal wrapper
  Scn(<<Obj("array", <<2, 5>>), Obj("task", <<6, 3, 4>>), Obj("qrl", <<>>),
        Sig(-3, <<>>), Obj("wrapper", <<4>>), Obj("node", <<>>)>>, <<1>>),
  \* a props container sharing its var props with a field
  Scn(<<Obj("literal", <<2, 3>>), Obj("props", <<3, 4>>), Obj("literal", <<>>),
        Obj("literal", <<>>)>>, <<1>>),
  \* a store proxy referenced from two fields, with a subscriber
  Scn(<<Obj("literal", <<2, 2>>), Store(3, <<<<0, 4>>>>), Obj("literal", <<>>),
        Obj("literal", <<>>)>>, <<1>>),
  \* a long string referenced twice, a short one referenced twice
  Scn(<<Obj("array", <<2, 2, 3, 3>>), Str(LongText), Str(<<120>>)>>, <<1>>),
  \* leaf kinds and a no-serialize object
  Scn(<<Obj("array", <<2, 3, 2>>), Obj("url", <<>>), Obj("noserialize", <<>>)>>, <<1>>),
  \* an instance of an unknown class
  Scn(<<Obj("literal", <<2>>), Obj("instance", <<>>)>>, <<1>>),
  \* a promise that resolves to a number
  Scn(<<Obj("literal", <<2>>), Prom("resolve", -42)>>, <<1>>),
  \* a declared promise that rejects with an error
  Scn(<<Prom("reject", 2), Obj("error", <<>>)>>, <<1>>),
  \* two promises, one resolving to an object that is also a field
  Scn(<<Obj("literal", <<2, 3, 4>>), Prom("resolve", 4), Prom("reject", -1),
        Obj("literal", <<>>)>>, <<1>>),
  \* a promise referenced twice
  Scn(<<Obj("array", <<2, 2>>), Prom("resolve", -5)>>, <<1>>),
  \* a promise that never settles beside one that does
  Scn(<<Obj("array", <<2, 3>>), Prom("never", 0), Prom("resolve", -1)>>, <<1>>),
  \* a promise resolving to an object that holds a shared object and a
  \* nested promise
  Scn(<<Obj("literal", <<2>>), Prom("resolve", 3), Obj("literal", <<4, 4, 5>>),
        Obj("literal", <<>>), Prom("resolve", -9)>>, <<1>>),
  \* a promise rejecting with an object that lies on a cycle
  Scn(<<Obj("literal", <<2>>), Prom("reject", 3), Obj("literal", <<4>>),
        Obj("literal", <<3>>)>>, <<1>>)
}

\* no function has been called directly yet
NoCall == [op |-> "none", args |-> <<>>, ret |-> <<>>, prev |-> <<>>]
Called(op, args, ret) ==
  [op |-> op, args |-> args, ret |-> ret, prev |-> [lastCall EXCEPT !.prev = <<>>]]

InitOf(scenarios) ==
  /\ \E sc \in scenarios : heap = sc.heap /\ decl = sc.decl
  /\ pc = "setup"
  /\ map = <<>>
  /\ roots = <<>>
  /\ rootIdx = 0
  /\ objRootsLength = 0
  /\ rootObj = 0
  /\ discoveredValues = <<>>
  /\ promises = <<>>
  /\ rootIdOf = <<>>
  /\ settled = [o \in 1..Len(heap) |-> "pending"]
  /\ reactions = [o \in 1..Len(heap) |-> <<>>]
  /\ jobs = <<>>
  /\ awaiting = 0
  /\ hist = HistInit
  /\ syncFns = <<>>
  /\ nodes = <<>>
  /\ stack = <<>>
  /\ known = {}
  /\ lastRead = <<>>
  /\ lastCall = NoCall

WalkNext ==
  \/ DeclareRoot
  \/ BeginBreak
  \/ WalkNextRoot
  \/ WalkStep
  \/ WalkEnd
  \/ \E p \in 1..Len(heap) : Settle(p)
  \/ RunCallback
  \/ RunAllSettled
  \/ RunDrain

InitWalk == InitOf(WalkScenarios)
SpecWalk == InitWalk /\ [][WalkNext]_vars

\* The synchronous code runs to completion, the microtask queue is always
\* served, and a promise whose fate is to settle does settle.
FairWalk ==
  /\ WF_vars(DeclareRoot) /\ WF_vars(BeginBreak) /\ WF_vars(WalkNextRoot)
  /\ WF_vars(WalkStep) /\ WF_vars(WalkEnd)
  /\ WF_vars(RunCallback) /\ WF_vars(RunAllSettled) /\ WF_vars(RunDrain)
  /\ \A p \in 1..8 : WF_vars(Settle(p))
FairSpecWalk == SpecWalk /\ FairWalk

(***************************************************************************)
(* The reference graph the properties speak of.                            *)
(***************************************************************************)
SubTail(sub) == SubSeq(sub, 2, Len(sub))
Children(o) ==
  IF KindOf(o) \in {"literal", "array", "set", "map", "task", "qrl", "props",
                    "derived", "wrapper", "jsx"}
  THEN heap[o].refs
  ELSE IF KindOf(o) \in {"signal", "store"}
  THEN heap[o].refs \o Flatten([k \in 1..Len(heap[o].subs) |-> SubTail(heap[o].subs[k])])
  ELSE <<>>

RECURSIVE ReachFrom(_, _)
ReachFrom(done, frontier) ==
  IF frontier \subseteq done THEN done
  ELSE ReachFrom(done \cup frontier,
                 UNION {Range(Children(o)) : o \in frontier \ done})
Reachable(starts) == {o \in ReachFrom({}, starts) : IsObj(o)}

Count(sq, x) == Cardinality({k \in 1..Len(sq) : sq[k] = x})
RECURSIVE SumOver(_, _)
SumOver(S, x) ==
  IF S = {} THEN 0
  ELSE LET o == CHOOSE y \in S : TRUE IN Count(Children(o), x) + SumOver(S \ {o}, x)
\* the number of places, among the objects reachable from starts, that hold x
RefCount(starts, x) == SumOver(Reachable(starts), x)
OnCycle(x) == x \in Reachable(Range(Children(x)))

IsRootedNonNeg(o) == HasEntry(map, o) /\ map[o] >= 0

(***************************************************************************)
(* C2: when $breakCircularDepsAndAwaitPromises$ has finished, every        *)
(* trackable object reachable from a declared root that is referenced from *)
(* two or more places, or that lies on a cycle, has a root id >= 0 in the  *)
(* object map, whatever compound kinds the references pass through.        *)
(***************************************************************************)
C2_SharedOrCyclicRooted ==
  pc = "drained" =>
    \A o \in Reachable(hist.declared) :
      (shouldTrackObj(o) /\ (RefCount(hist.declared, o) >= 2 \/ OnCycle(o)))
        => IsRootedNonNeg(o)

(***************************************************************************)
(* C3: for every finite object graph with no pending async values,         *)
(* whatever cycles it contains, the walker's worklist loop for each        *)
(* declared root terminates with an empty worklist.                        *)
(***************************************************************************)
NoPromises == \A o \in 1..Len(heap) : heap[o].kind # "promise"
WalksOver == pc \in {"drained", "error"} /\ discoveredValues = <<>>
C3_WalkTerminates == NoPromises => <>WalksOver

(***************************************************************************)
(* C4: at the moment $breakCircularDepsAndAwaitPromises$ completes, the    *)
(* outstanding list is empty and every async value the walk discovered has *)
(* settled and carries its side-channel id.                                *)
(***************************************************************************)
C4_DrainedAllSettled ==
  pc = "drained" =>
    /\ promises = <<>>
    /\ \A p \in hist.registered :
         settled[p] # "pending" /\ HasEntry(rootIdOf, p)
C4_Witness ==
  /\ pc = "drained"
  /\ Cardinality(hist.registered) >= 2
  /\ \A p \in hist.registered : HasEntry(rootIdOf, p)

(***************************************************************************)
(* C5: if every discovered async value eventually settles, the drain loop  *)
(* eventually completes; if at least one discovered async value never      *)
(* settles, it never completes.                                            *)
(***************************************************************************)
AllWillSettle == \A p \in hist.registered : heap[p].fate # "never"
C5_DrainLiveness ==
  /\ (pc = "await" /\ AllWillSettle) ~> (pc = "drained")
  /\ [](pc = "drained" => AllWillSettle)
C5_Witness ==
  /\ pc = "await"
  /\ jobs = <<>>
  /\ ~AllWillSettle
  /\ \E p \in hist.registered : settled[p] # "pending"

(***************************************************************************)
(* C6: when a pending async value found by the walk settles, the objects   *)
(* reachable from its resolved value (or rejection reason) are fed back    *)
(* into the walk before the drain completes: shared or cyclic objects      *)
(* among them are promoted to roots, and pending async values nested       *)
(* inside them are themselves registered and awaited.                      *)
(***************************************************************************)
SettledValues == {heap[p].refs[1] : p \in hist.registered}
C6_SettledValuesWalked ==
  pc = "drained" =>
    \A o \in Reachable(SettledValues) :
      /\ shouldTrackObj(o) => HasEntry(map, unwrapProxy(o))
      /\ (KindOf(o) = "promise" /\ heap[o].fate # "never")
           => (o \in hist.registered /\ settled[o] # "pending")
      /\ (shouldTrackObj(o) /\ (RefCount(SettledValues, o) >= 2 \/ OnCycle(o)))
           => IsRootedNonNeg(o)

(***************************************************************************)
(* The context used directly: the caller may call $seen$ and $addRoot$ on  *)
(* any value between graph walks.                                          *)
(***************************************************************************)
ApiValues == (1..Len(heap)) \cup {-1}

ApiSeen(v) ==
  /\ pc = "setup"
  /\ decl = <<>>
  /\ Len(roots) < MaxRoots
  /\ map' = seen(map, v)
  /\ UNCHANGED <<heap, decl, pc, roots, rootIdx, objRootsLength, rootObj,
                 discoveredValues, promises, rootIdOf, settled, reactions, jobs,
                 awaiting, hist>>
  /\ UNCHANGED codecVars

ApiAddRoot(v) ==
  /\ pc = "setup"
  /\ decl = <<>>
  /\ Len(roots) < MaxRoots
  /\ map' = addRootMap(map, roots, v)
  /\ roots' = addRootRoots(map, roots, v)
  /\ hist' = LogAdd(hist, map, roots, v)
  /\ UNCHANGED <<heap, decl, pc, rootIdx, objRootsLength, rootObj,
                 discoveredValues, promises, rootIdOf, settled, reactions, jobs,
                 awaiting>>
  /\ UNCHANGED codecVars

ApiBreak ==
  /\ Len(roots) < MaxRoots
  /\ BeginBreak

\* the caller goes on using the context after a completed walk
ApiResume ==
  /\ pc = "drained"
  /\ pc' = "setup"
  /\ UNCHANGED <<heap, decl, map, roots, rootIdx, objRootsLength, rootObj,
                 discoveredValues, promises, rootIdOf, settled, reactions, jobs,
                 awaiting, hist>>
  /\ UNCHANGED codecVars

ApiScenarios == {
  Scn(<<Obj("literal", <<2, 2>>), Obj("literal", <<>>)>>, <<>>),
  Scn(<<Obj("literal", <<2>>), Obj("array", <<1>>)>>, <<>>)
}

InitApi == InitOf(ApiScenarios)
ApiNext ==
  \/ \E v \in ApiValues : ApiSeen(v)
  \/ \E v \in ApiValues : ApiAddRoot(v)
  \/ ApiBreak
  \/ WalkNextRoot
  \/ WalkStep
  \/ WalkEnd
  \/ ApiResume
SpecApi == InitApi /\ [][ApiNext]_vars

IsPrefix(a, b) == Len(a) <= Len(b) /\ SubSeq(b, 1, Len(a)) = a

(***************************************************************************)
(* C1: within one serialization context, after any sequence of $seen$,     *)
(* $addRoot$ and graph-walk steps, the root list has only grown by         *)
(* appending, every $addRoot$ call on the same object returns the same id  *)
(* as the first call did, roots[id] is that object, and no id is ever      *)
(* assigned to two different objects.                                      *)
(***************************************************************************)
RootIdsStable ==
  /\ hist.lastAdd # <<>> => hist.lastAdd[2] = hist.firstId[hist.lastAdd[1]]
  /\ \A o \in DOMAIN hist.firstId : roots[hist.firstId[o] + 1] = o
  /\ \A o1, o2 \in DOMAIN map :
       (IsRooted(map, o1) /\ IsRooted(map, o2) /\ map[o1] = map[o2]) => o1 = o2
C1_RootIdsStable == [][IsPrefix(roots, roots') /\ RootIdsStable']_vars

(***************************************************************************)
(* Text.  A string is the sequence of its character codes; numbers are     *)
(* written in decimal as String(n) writes them and read back as parseInt   *)
(* reads them.                                                             *)
(***************************************************************************)
RECURSIVE Digits(_)
Digits(n) == IF n < 10 THEN <<48 + n>> ELSE Digits(n \div 10) \o <<48 + (n % 10)>>
IntStr(n) == IF n < 0 THEN <<45>> \o Digits(-n) ELSE Digits(n)

RECURSIVE Join(_, _)
Join(ss, sep) ==
  IF ss = <<>> THEN <<>>
  ELSE IF Len(ss) = 1 THEN ss[1]
  ELSE ss[1] \o <<sep>> \o Join(Tail(ss), sep)

\* String.prototype.substring(a, b): both ends clamped to the string, swapped
\* when a > b
Clamp(s, a) == IF a < 0 THEN 0 ELSE IF a > Len(s) THEN Len(s) ELSE a
Substring(s, a, b) ==
  LET lo == IF Clamp(s, a) <= Clamp(s, b) THEN Clamp(s, a) ELSE Clamp(s, b)
      hi == IF Clamp(s, a) <= Clamp(s, b) THEN Clamp(s, b) ELSE Clamp(s, a)
  IN  SubSeq(s, lo + 1, hi)

\* parseInt: leading blanks, an optional sign, then the longest run of digits;
\* NaN when there is no digit
IsDigit(ch) == ch \in 48..57
RECURSIVE SkipBlanks(_)
SkipBlanks(s) == IF s # <<>> /\ s[1] = 32 THEN SkipBlanks(Tail(s)) ELSE s
RECURSIVE DigitRun(_, _)
DigitRun(s, acc) ==
  IF s # <<>> /\ IsDigit(s[1]) THEN DigitRun(Tail(s), 10 * acc + (s[1] - 48)) ELSE acc
NaN == [nan |-> TRUE, n |-> 0]
Num(n) == [nan |-> FALSE, n |-> n]
parseInt(s) ==
  LET t == SkipBlanks(s)
      signed == t # <<>> /\ t[1] \in {43, 45}
      u == IF signed THEN Tail(t) ELSE t
  IN  IF u = <<>> \/ ~IsDigit(u[1]) THEN NaN
      ELSE IF signed /\ t[1] = 45 THEN Num(-DigitRun(u, 0)) ELSE Num(DigitRun(u, 0))

\* restString (lines 274-293) on the cursor (rest, restIdx): the value of
\* restIdx when the do-while loop exits, and the token returned
RECURSIVE RestScan_Flat(_, _, _)
RestScan_Flat(rest, idx, depth) ==
  IF idx < Len(rest)
  THEN IF rest[idx + 1] # 32 THEN RestScan_Flat(rest, idx + 1, depth) ELSE idx + 1
  ELSE Len(rest) + 1
RECURSIVE RestScan(_, _, _)
RestScan(rest, idx, depth) ==
  IF idx < Len(rest)
  THEN LET ch == rest[idx + 1]
           d == IF ch = 91 THEN depth + 1 ELSE IF ch = 93 THEN depth - 1 ELSE depth
       IN  IF d > 0 \/ ch # 32 THEN RestScan(rest, idx + 1, d) ELSE idx + 1
  ELSE Len(rest) + 1
restString(rest, idx) == Substring(rest, idx, RestScan(rest, idx, 0) - 1)
restInt(rest, idx) == parseInt(restString(rest, idx))

\* the tokens k successive calls of restString return from position idx
RECURSIVE RestTokens(_, _, _)
RestTokens(rest, idx, k) ==
  IF k = 0 THEN <<>>
  ELSE <<restString(rest, idx)>> \o RestTokens(rest, RestScan(rest, idx, 0), k - 1)

\* restIdx after k successive calls of restString from position idx
RECURSIVE RestSkip(_, _, _)
RestSkip(rest, idx, k) ==
  IF k = 0 THEN idx ELSE RestSkip(rest, RestScan(rest, idx, 0), k - 1)

\* every token restInt returns until the cursor reaches the end (line 323)
RECURSIVE RestInts(_, _)
RestInts(rest, idx) ==
  IF idx < Len(rest)
  THEN <<restInt(rest, idx)>> \o RestInts(rest, RestScan(rest, idx, 0))
  ELSE <<>>

(***************************************************************************)
(* SerializationConstant (lines 1293-1359).                                *)
(***************************************************************************)
UNDEFINED_VALUE == 0
REFERENCE_VALUE == 1
URL_VALUE == 2
Date_VALUE == 3
Regex_VALUE == 4
String_VALUE == 5
VNode_VALUE == 6
NotFinite_VALUE == 7
BigInt_VALUE == 8
URLSearchParams_VALUE == 14
Error_VALUE == 15
QRL_VALUE == 16
Task_VALUE == 17
Component_VALUE == 19
DerivedSignal_VALUE == 20
Signal_VALUE == 21
SignalWrapper_VALUE == 22
Store_VALUE == 23
FormData_VALUE == 24
JSXNode_VALUE == 25
Set_VALUE == 26
Map_VALUE == 27
Promise_VALUE == 28
Uint8Array_VALUE == 30
PropsProxy_VALUE == 31
LAST_VALUE == 32

(***************************************************************************)
(* The document.  The writer's output is kept in the form JSON.parse gives *)
(* it back: containers (arrays and objects) holding cells.  A cell is a    *)
(* number, a string, undefined, or the identity of a node.                 *)
(*   kind  "array" or "object" for a container of the document, otherwise  *)
(*         the class of an object the deserializer allocated               *)
(*   f     the elements, or the property values in key order               *)
(*   keys  of an object: which property of the source each entry is        *)
(*   meta  of a store target: the entry under the Store_CHAR key           *)
(*   src   the source value a container was written for (observation only) *)
(*   st    of a promise: "pending", "fulfilled" or "rejected"              *)
(*   text  text the allocated object was built from                        *)
(*   subs  of a signal: the subscriber tuples                              *)
(*   constProps  of an upgraded properties object: the [_CONST_PROPS] map, *)
(*         as pairs <<key position, derived signal>>                       *)
(***************************************************************************)
NumCell(n) == [t |-> "p", n |-> n, s |-> <<>>]
StrCell(s) == [t |-> "s", n |-> 0, s |-> s]
RefCell(k) == [t |-> "o", n |-> k, s |-> <<>>]
\* NaN, an infinity by its sign, a bigint by its digits, and the element
\* or document a VNode id locates
NaNCell == [t |-> "nan", n |-> 0, s |-> <<>>]
InfCell(sign) == [t |-> "inf", n |-> sign, s |-> <<>>]
BigIntCell(digits) == [t |-> "big", n |-> 0, s |-> digits]
VNodeCell(id) == [t |-> "v", n |-> 0, s |-> id]
Undef == [t |-> "u", n |-> 0, s |-> <<>>]
Tagged(tag, payload) == StrCell(<<tag>> \o payload)

Node(k, src) ==
  [kind |-> k, f |-> <<>>, keys |-> <<>>, meta |-> <<>>, src |-> src,
   st |-> "none", text |-> <<>>, subs |-> <<>>, constProps |-> <<>>]

(***************************************************************************)
(* serialize (lines 821-1058).  The context the encoder threads through    *)
(* its calls: the object map, the roots, the heap and the closure table.   *)
(* The platform maps no symbol to a chunk, the chunk resolver knows no     *)
(* chunk, and the build is a production build (isDev is false).            *)
(***************************************************************************)
CtxNow == [map |-> map, roots |-> roots, heap |-> heap, syncFns |-> syncFns]
AddRoot(c, v) ==
  [c EXCEPT !.map = addRootMap(c.map, c.roots, v),
            !.roots = addRootRoots(c.map, c.roots, v)]

\* values.map($addRoot$): the calls run left to right
RECURSIVE AddRoots(_, _)
AddRoots(c, vs) ==
  IF vs = <<>> THEN [c |-> c, ids |-> <<>>]
  ELSE LET r == AddRoots(AddRoot(c, Head(vs)), Tail(vs))
       IN  [c |-> r.c, ids |-> <<addRootId(c.map, c.roots, Head(vs))>> \o r.ids]

IdList(ids) == Join([k \in 1..Len(ids) |-> IntStr(ids[k])], 32)

\* subscriptionManagerToString (lines 1136-1153): the segments, one per
\* subscriber
RECURSIVE SubSegments(_, _)
SubSegments(c, subs) ==
  IF subs = <<>> THEN [c |-> c, data |-> <<>>]
  ELSE LET r1 == AddRoots(c, SubTail(Head(subs)))
           subData == IntStr(Head(subs)[1]) \o
                      Flatten([k \in 1..Len(r1.ids) |-> <<32>> \o IntStr(r1.ids[k])])
           r2 == SubSegments(r1.c, Tail(subs))
       IN  [c |-> r2.c, data |-> <<subData>> \o r2.data]
subscriptionManagerToString(c, subs) ==
  [c |-> SubSegments(c, subs).c, text |-> Join(SubSegments(c, subs).data, 59)]

\* $addSyncFn$ (lines 651-671): syncFns[k].key is the syncFnMap key of id k-1
SyncFnCode(funcStr, argCount) ==
  <<40>> \o Flatten([k \in 1..argCount |->
                      (IF k = 1 THEN <<112>> ELSE <<44, 112>>) \o Digits(k - 1)])
         \o <<41, 61, 62>> \o funcStr
SyncFnIndex(fns, key) ==
  IndexOf([k \in 1..Len(fns) |-> fns[k].key], key)
addSyncFnId_Fresh(fns, key) == Len(fns)
addSyncFnId(fns, key) ==
  IF SyncFnIndex(fns, key) = -1 THEN Len(fns) ELSE SyncFnIndex(fns, key)
addSyncFn(fns, funcStr, argCount, fn) ==
  LET isFullFn == funcStr = <<>>
      key == IF isFullFn THEN fn ELSE funcStr
  IN  IF SyncFnIndex(fns, key) # -1 THEN fns
      ELSE Append(fns, [key |-> key,
                        code |-> IF isFullFn THEN key ELSE SyncFnCode(funcStr, argCount)])

\* serializeSignalDerived (lines 1108-1124)
DerivedFuncStr(c, v) ==
  LET fs == c.heap[v].chars
  IN  IF fs # <<>> /\ fs[1] = 123 THEN <<40>> \o fs \o <<41>> ELSE fs
serializeSignalDerived(c, v) ==
  LET fs == DerivedFuncStr(c, v)
      key == IF fs = <<>> THEN c.heap[v].aux ELSE fs
      c1 == [c EXCEPT !.heap[v].chars = fs,
                      !.syncFns = addSyncFn(c.syncFns, fs, Len(c.heap[v].refs), c.heap[v].aux)]
      r == AddRoots(c1, c.heap[v].refs)
      args == IdList(r.ids)
  IN  [c |-> r.c,
       cell |-> Tagged(DerivedSignal_VALUE,
                       IntStr(addSyncFnId(c.syncFns, key)) \o
                       (IF args # <<>> THEN <<32>> \o args ELSE <<>>))]

\* qrlToString (lines 1177-1236).  The fields of the QRL a heap record does
\* not hold, and what surrounds the call, come as env:
\*   refSymbol  value.$refSymbol$ is set
\*   sync       isSyncQrl(value)
\*   fn         the text of value.resolved (a sync QRL's function)
\*   platform   what getPlatform().chunkForSymbol gives: <<symbol, chunk>>, or
\*              <<>> when there is no platform or it gives nothing
\*   resolver   what $symbolToChunkResolver$(value.$hash$) gives, <<>> if nothing
\*   isDev      the build mode
QRL_RUNTIME_CHUNK == <<109, 111, 99, 107>>     \* the text of the dev marker
QrlEnv(refSymbol, sync, fn, platform, resolver, isDev) ==
  [refSymbol |-> refSymbol, sync |-> sync, fn |-> fn, platform |-> platform,
   resolver |-> resolver, isDev |-> isDev]
\* a QRL that is not sync, in a production build, with no platform mapping
\* and a resolver that knows no chunk
PlainEnv == QrlEnv(FALSE, FALSE, <<>>, <<>>, <<>>, FALSE)
\* lines 1186-1194
PlatformChunk(env, chunk) == IF env.platform # <<>> THEN env.platform[2] ELSE chunk
PlatformSymbol(env, symbol) ==
  IF env.platform # <<>> /\ ~env.refSymbol THEN env.platform[1] ELSE symbol
\* lines 1199-1201
ResolverAsked(env, chunk) == ~env.sync /\ chunk = <<>>
\* lines 1203-1212
DevChunk_Off(isDev, chunk) == chunk
DevChunk(isDev, chunk) == IF isDev /\ chunk = <<>> THEN QRL_RUNTIME_CHUNK ELSE chunk
qrlToStringIn(env, c, v) ==
  LET chunk0 == PlatformChunk(env, c.heap[v].aux)
      symbol0 == PlatformSymbol(env, c.heap[v].chars)
      asked == ResolverAsked(env, chunk0)
      chunk1 == DevChunk(env.isDev, IF asked THEN env.resolver ELSE chunk0)
      fns == IF env.sync THEN addSyncFn(c.syncFns, <<>>, 0, env.fn) ELSE c.syncFns
      chunk == IF env.sync THEN <<>> ELSE chunk1
      symbol == IF env.sync THEN IntStr(addSyncFnId(c.syncFns, env.fn)) ELSE symbol0
      ok == env.sync \/ chunk1 # <<>>
      r == AddRoots([c EXCEPT !.syncFns = fns], c.heap[v].refs)
  IN  [c |-> IF ok THEN r.c ELSE c,
       ok |-> ok,
       asked |-> asked,
       text |-> IF ok
                THEN chunk \o <<35>> \o symbol \o
                     (IF c.heap[v].refs # <<>> THEN <<91>> \o IdList(r.ids) \o <<93>>
                      ELSE <<>>)
                ELSE <<>>]
qrlToString(c, v) == qrlToStringIn(PlainEnv, c, v)

fastSkipSerialize(c, v) == v \in 1..Len(c.heap) /\ c.heap[v].kind = "noserialize"
isStore(c, v) == v \in 1..Len(c.heap) /\ c.heap[v].kind = "store"
\* $proxyMap$.get(value): the store proxy created for a target, 0 when none
ProxyOf(c, v) ==
  IF \E s \in 1..Len(c.heap) : isStore(c, s) /\ c.heap[s].refs[1] = v
  THEN CHOOSE s \in 1..Len(c.heap) : isStore(c, s) /\ c.heap[s].refs[1] = v
  ELSE 0

\* what one writeValue call does: "cell" writes one scalar or tagged string,
\* "open" starts a container, "throw" aborts, "beyond" is a kind outside the
\* kinds modelled here
Wrote(c, cell) == [op |-> "cell", c |-> c, cell |-> cell]
Opens(c, meta) == [op |-> "open", c |-> c, cell |-> meta]
Throws(c) == [op |-> "throw", c |-> c, cell |-> Undef]
Beyond(c) == [op |-> "beyond", c |-> c, cell |-> Undef]


Hidden == <<60, 104, 105, 100, 100, 101, 110, 62>>   \* "<hidden>"

\* writeObjectValue (lines 893-1018) at the given depth
writeObjectValue(c, v, depth) ==
  LET k == c.heap[v].kind
      refs == c.heap[v].refs
      len == Len(c.heap)
  IN
  IF fastSkipSerialize(c, v) THEN Wrote(c, Tagged(UNDEFINED_VALUE, <<>>))
  ELSE IF depth > 1 /\ HasEntry(c.map, v) /\ c.map[v] >= 0
  THEN Wrote(c, Tagged(REFERENCE_VALUE, IntStr(c.map[v])))
  ELSE IF k = "props"
  THEN LET r == AddRoots(c, <<refs[1], refs[2]>>)
       IN  Wrote(r.c, Tagged(PropsProxy_VALUE, IdList(r.ids)))
  ELSE IF k = "store"
  THEN Wrote(AddRoot(c, refs[1]),
             Tagged(Store_VALUE, IntStr(addRootId(c.map, c.roots, refs[1]))))
  ELSE IF k \in {"literal", "array"}
  THEN IF ProxyOf(c, v) = 0 THEN Opens(c, Undef)
       ELSE LET s == subscriptionManagerToString(c, c.heap[ProxyOf(c, v)].subs)
            IN  Opens(s.c, StrCell(IntStr(0) \o s.text))
  ELSE IF k = "signal"
  THEN LET s == subscriptionManagerToString(c, c.heap[v].subs)
       IN  Wrote(AddRoot(s.c, refs[1]),
                 Tagged(Signal_VALUE,
                        IntStr(addRootId(s.c.map, s.c.roots, refs[1])) \o
                        (IF s.text = <<>> THEN <<>> ELSE <<59>> \o s.text)))
  ELSE IF k = "derived"
  THEN Wrote(serializeSignalDerived(c, v).c, serializeSignalDerived(c, v).cell)
  ELSE IF k = "wrapper"
  THEN Wrote(AddRoot(c, refs[1]),
             Tagged(SignalWrapper_VALUE,
                    IntStr(addRootId(c.map, c.roots, refs[1])) \o <<32>> \o c.heap[v].chars))
  ELSE IF k = "url" THEN Wrote(c, Tagged(URL_VALUE, c.heap[v].chars))
  ELSE IF k = "date" THEN Wrote(c, Tagged(Date_VALUE, c.heap[v].chars))
  ELSE IF k = "regexp" THEN Wrote(c, Tagged(Regex_VALUE, c.heap[v].chars))
  ELSE IF k = "error"
  THEN LET c1 == [c EXCEPT !.heap = c.heap \o
                     <<Str(c.heap[v].chars), Str(Hidden),
                       Obj("literal", <<len + 1, len + 2>> \o refs)>>]
       IN  Wrote(AddRoot(c1, len + 3),
                 Tagged(Error_VALUE, IntStr(addRootId(c1.map, c1.roots, len + 3))))
  ELSE IF k = "usp" THEN Wrote(c, Tagged(URLSearchParams_VALUE, c.heap[v].chars))
  ELSE IF k \in {"set", "map", "promise"}
  THEN IF ~HasEntry(rootIdOf, v) THEN Throws(c)
       ELSE Wrote(c, Tagged(IF k = "set" THEN Set_VALUE
                            ELSE IF k = "map" THEN Map_VALUE ELSE Promise_VALUE,
                            IntStr(rootIdOf[v])))
  ELSE IF k \in {"node", "formdata", "jsx", "task", "bytes"} THEN Beyond(c)
  ELSE Throws(c)

\* lines 855-862: what follows NotFinite_CHAR
NotFiniteSuffix_None(kind) == <<>>
NotFiniteSuffix(kind) ==
  IF kind = "NaN" THEN <<>> ELSE IF kind = "Infinity" THEN <<43>> ELSE <<45>>

\* writeValue (lines 837-891) for an element of the container that is the
\* frames-th on the stack: depth is frames - 1 while its elements are written
writeValue(c, v, frames) ==
  IF fastSkipSerialize(c, v) THEN Wrote(c, Tagged(UNDEFINED_VALUE, <<>>))
  ELSE IF v \notin 1..Len(c.heap) THEN Wrote(c, NumCell(-v))
  ELSE IF c.heap[v].kind = "qrl"
  THEN IF qrlToString(c, v).ok
       THEN Wrote(qrlToString(c, v).c, Tagged(QRL_VALUE, qrlToString(c, v).text))
       ELSE Throws(qrlToString(c, v).c)
  ELSE IF c.heap[v].kind = "component" THEN Beyond(c)
  ELSE IF c.heap[v].kind \in NotFiniteKinds
  THEN Wrote(c, Tagged(NotFinite_VALUE, NotFiniteSuffix(c.heap[v].kind)))
  ELSE IF c.heap[v].kind = "string"
  THEN LET s == c.heap[v].chars
       IN  IF Len(s) > ShortStringMax /\ frames - 1 > 0 /\ IsRooted(c.map, v)
           THEN Wrote(c, Tagged(REFERENCE_VALUE, IntStr(c.map[v])))
           ELSE IF Len(s) > 0 /\ s[1] < LAST_VALUE
           THEN Wrote(c, Tagged(String_VALUE, s))
           ELSE Wrote(c, StrCell(s))
  ELSE writeObjectValue(c, v, frames)

\* serializeArray (1074-1087) and serializeObjectProperties (1089-1106): the
\* values the loop of a frame visits; roots.length is read on every turn
ElemsOf_AtStart(val) == IF val = 0 THEN SubSeq(roots, 1, objRootsLength) ELSE heap[val].refs
ElemsOf(val) == IF val = 0 THEN roots ELSE heap[val].refs

AppendCell(N, n, cell, key) ==
  [N EXCEPT ![n].f = Append(@, cell),
            ![n].keys = IF N[n].kind = "object" THEN Append(@, key) ELSE @]

\* line 1057: writeValue(serializationContext.$roots$, -1)
BeginSerialize ==
  /\ pc = "drained"
  /\ pc' = "encode"
  /\ nodes' = <<Node("array", 0)>>
  /\ stack' = <<[val |-> 0, node |-> 1, i |-> 1]>>
  /\ UNCHANGED <<heap, decl, map, roots, rootIdx, objRootsLength, rootObj,
                 discoveredValues, promises, rootIdOf, settled, reactions, jobs,
                 awaiting, hist, syncFns, known, lastRead, lastCall>>

\* one turn of the loop of the innermost container being written; the call
\* stack is finite, so recursion deeper than MaxDepth ends in a RangeError
EncodeStep ==
  /\ pc = "encode"
  /\ stack # <<>>
  /\ LET top == Last(stack)
         els == ElemsOf(top.val)
         fresh == Len(nodes) + 1
     IN
     IF top.i > Len(els)
     THEN /\ stack' = Front(stack)
          /\ pc' = IF Len(stack) = 1 THEN "encoded" ELSE pc
          /\ UNCHANGED <<heap, map, roots, syncFns, nodes>>
     ELSE LET v == els[top.i]
              w == writeValue(CtxNow, v, Len(stack))
              next == [stack EXCEPT ![Len(stack)].i = top.i + 1]
              inArray == nodes[top.node].kind = "array"
              here == AppendCell(nodes, top.node, RefCell(fresh), top.i)
          IN
          IF ~inArray /\ fastSkipSerialize(CtxNow, v)
          THEN /\ stack' = next
               /\ UNCHANGED <<pc, heap, map, roots, syncFns, nodes>>
          ELSE /\ w.op # "beyond"
               /\ heap' = w.c.heap
               /\ map' = w.c.map
               /\ roots' = w.c.roots
               /\ syncFns' = w.c.syncFns
               /\ IF w.op = "throw"
                  THEN pc' = "error" /\ UNCHANGED <<nodes, stack>>
                  ELSE IF w.op = "cell"
                  THEN /\ nodes' = AppendCell(nodes, top.node, w.cell, top.i)
                       /\ stack' = next
                       /\ pc' = pc
                  ELSE IF Len(stack) >= MaxDepth
                  THEN pc' = "error" /\ UNCHANGED <<nodes, stack>>
                  ELSE IF heap[v].kind = "array" /\ w.cell # Undef
                  THEN /\ nodes' = here \o
                            <<[Node("object", v) EXCEPT !.meta = <<w.cell>>,
                                 !.f = <<RefCell(fresh + 1)>>, !.keys = <<0>>],
                              Node("array", v)>>
                       /\ stack' = Append(next, [val |-> v, node |-> fresh + 1, i |-> 1])
                       /\ pc' = pc
                  ELSE /\ nodes' = Append(here,
                            [Node(IF heap[v].kind = "array" THEN "array" ELSE "object", v)
                               EXCEPT !.meta = IF w.cell = Undef THEN <<>> ELSE <<w.cell>>])
                       /\ stack' = Append(next, [val |-> v, node |-> fresh, i |-> 1])
                       /\ pc' = pc
  /\ UNCHANGED <<decl, rootIdx, objRootsLength, rootObj, discoveredValues, promises,
                 rootIdOf, settled, reactions, jobs, awaiting, hist, known, lastRead, lastCall>>

(***************************************************************************)
(* The lazy deserializer.  A property read through the wrapper of a        *)
(* container (DeserializationHandler.get, lines 95-181) may allocate and   *)
(* inflate, and inflating reads other root slots through the wrapper of    *)
(* the roots array.  The nested calls are run on an explicit call stack:   *)
(* the machine m holds the document N, the frames stk, and the value ret   *)
(* being handed to the innermost frame when mode is "ret".                 *)
(* The wrapper of a container is identified with the container: the        *)
(* WeakMap deserializedProxyMap (line 81) gives one wrapper per container. *)
(***************************************************************************)
Ret(N, val) == [N |-> N, val |-> val, err |-> FALSE]
Thrown(N) == [N |-> N, val |-> Undef, err |-> TRUE]

IsTagged(cell) == cell.t = "s" /\ Len(cell.s) >= 1 /\ cell.s[1] < LAST_VALUE
IsContainer(N, cell) == cell.t = "o" /\ N[cell.n].kind \in {"array", "object"}

CharIndexOf(s, ch, from) == IndexFrom(s, ch, (IF from < 0 THEN 0 ELSE from) + 1)

\* String.prototype.split(sep)
RECURSIVE Split(_, _)
Split(s, sep) ==
  IF IndexOf(s, sep) = -1 THEN <<s>>
  ELSE <<SubSeq(s, 1, IndexOf(s, sep))>> \o Split(SubSeq(s, IndexOf(s, sep) + 2, Len(s)), sep)

\* parseQRL (lines 495-519): captureIds, <<>> standing for null
captureIds(qrl) ==
  LET hashIdx == CharIndexOf(qrl, 35, 0)
      captureStart == CharIndexOf(qrl, 91, hashIdx)
      captureEnd == CharIndexOf(qrl, 93, captureStart)
  IN  IF captureStart > -1 /\ captureEnd > -1
      THEN SelectSeq(Split(Substring(qrl, captureStart + 1, captureEnd), 32),
                     LAMBDA v : Len(v) > 0)
      ELSE <<>>

\* allocate (lines 414-485): the value, and the document with the new object
Shell(N, k, text) == Ret(Append(N, [Node(k, 0) EXCEPT !.text = text]), RefCell(Len(N) + 1))
\* lines 475-479: the length of the byte array made for an encoding of
\* encodedLength characters
DecodedLength(encodedLength) ==
  (encodedLength \div 4) * 3 +
  (IF encodedLength % 4 # 0 THEN (encodedLength % 4) - 1 ELSE 0)
allocate_Lenient(N, value) == Ret(N, Undef)
allocate(N, value) ==
  LET tag == value[1] IN
  IF tag = UNDEFINED_VALUE THEN Ret(N, Undef)
  ELSE IF tag = QRL_VALUE THEN Shell(N, "qrl", value)
  ELSE IF tag = URL_VALUE THEN Shell(N, "url", Tail(value))
  ELSE IF tag = Date_VALUE THEN Shell(N, "date", Tail(value))
  ELSE IF tag = Regex_VALUE THEN Shell(N, "regexp", Tail(value))
  ELSE IF tag = Error_VALUE THEN Shell(N, "error", <<>>)
  ELSE IF tag = DerivedSignal_VALUE THEN Shell(N, "derived", <<>>)
  ELSE IF tag = Signal_VALUE THEN Shell(N, "signal", <<>>)
  ELSE IF tag = SignalWrapper_VALUE THEN Shell(N, "wrapper", <<>>)
  ELSE IF tag = URLSearchParams_VALUE THEN Shell(N, "usp", Tail(value))
  ELSE IF tag = Set_VALUE THEN Shell(N, "set", <<>>)
  ELSE IF tag = Map_VALUE THEN Shell(N, "map", <<>>)
  ELSE IF tag = String_VALUE THEN Ret(N, StrCell(Tail(value)))
  ELSE IF tag = Promise_VALUE
  THEN Ret(Append(N, [Node("promise", 0) EXCEPT !.st = "pending"]), RefCell(Len(N) + 1))
  ELSE IF tag = PropsProxy_VALUE THEN Shell(N, "props", <<>>)
  ELSE IF tag = Task_VALUE THEN Shell(N, "task", <<>>)
  ELSE IF tag = Component_VALUE THEN Shell(N, "component", value)
  ELSE IF tag = NotFinite_VALUE
  THEN Ret(N, IF Tail(value) = <<>> THEN NaNCell
              ELSE IF Tail(value) = <<45>> THEN InfCell(-1) ELSE InfCell(1))
  ELSE IF tag = FormData_VALUE THEN Shell(N, "formdata", <<>>)
  ELSE IF tag = JSXNode_VALUE THEN Shell(N, "jsx", <<>>)
  ELSE IF tag = BigInt_VALUE THEN Ret(N, BigIntCell(Tail(value)))
  ELSE IF tag = Uint8Array_VALUE
  THEN Ret(Append(N, [Node("bytes", 0) EXCEPT
                        !.f = [j \in 1..DecodedLength(Len(value) - 1) |-> NumCell(0)]]),
           RefCell(Len(N) + 1))
  \* Resource_VALUE throws 'Not implemented' (line 423) and a tag without a
  \* case throws 'unknown allocate type' (line 483)
  ELSE Thrown(N)

\* Set.prototype.add over a list: later duplicates are dropped
RECURSIVE Distinct(_)
Distinct(vs) ==
  IF vs = <<>> THEN <<>>
  ELSE LET d == Distinct(Front(vs))
       IN  IF Last(vs) \in Range(d) THEN d ELSE Append(d, Last(vs))


NumberCell(x) == IF x.nan THEN NaNCell ELSE NumCell(x.n)
\* the value a getter installed by upgradePropsWithDerivedSignal returns:
\* derivedSignal.value of the derived signal k
ComputedBy(k) == [t |-> "d", n |-> k, s |-> <<>>]
Getter(k) == [t |-> "g", n |-> k, s |-> <<>>]

\* Map.prototype.set over a flat key, value list: a repeated key keeps its
\* place and takes the later value
RECURSIVE MapPairs(_)
MapPairs(vs) ==
  IF Len(vs) < 2 THEN <<>>
  ELSE LET m == MapPairs(SubSeq(vs, 1, Len(vs) - 2))
           key == vs[Len(vs) - 1]
           hit == {j \in 1..Len(m) : j % 2 = 1 /\ m[j] = key}
       IN  IF hit = {} THEN m \o <<key, vs[Len(vs)]>>
           ELSE [m EXCEPT ![(CHOOSE j \in hit : TRUE) + 1] = vs[Len(vs)]]

\* container.$getObjectById$(id) reads root slot id through the wrapper of
\* the roots array: the property to read, n = 0 when there is no such slot
Slot(N, id) ==
  IF id.nan \/ id.n < 0 \/ id.n >= Len(N[1].f) THEN [n |-> 0, i |-> 0]
  ELSE [n |-> 1, i |-> id.n + 1]
Slots(N, ids) == [j \in 1..Len(ids) |-> Slot(N, ids[j])]

\* subscriptionManagerFromString (lines 1155-1175): the segments that are
\* not empty, the ids they name, and the tuples built from the objects
SegmentsIn_All(value) == Split(value, 59)
SegmentsIn(value) == SelectSeq(Split(value, 59), LAMBDA sub : sub # <<>>)
SubSegmentsOf(data) ==
  LET semiIdx == CharIndexOf(data, 59, 0)
  IN  IF semiIdx <= 0 THEN <<>>
      ELSE SegmentsIn(Substring(data, semiIdx + 1, Len(data)))
SubIds(segs) ==
  Flatten([j \in 1..Len(segs) |->
             [x \in 1..(Len(Split(segs[j], 32)) - 1) |->
                parseInt(Split(segs[j], 32)[x + 1])]])
RECURSIVE SubTuples(_, _)
SubTuples(segs, vals) ==
  IF segs = <<>> THEN <<>>
  ELSE LET toks == Split(Head(segs), 32)
       IN  <<<<NumberCell(parseInt(toks[1]))>> \o SubSeq(vals, 1, Len(toks) - 1)>> \o
           SubTuples(Tail(segs), SubSeq(vals, Len(toks), Len(vals)))

\* deserializeJSXType (lines 1373-1386): the type is a root id when its text
\* starts with a digit; Slot and Fragment are named by ':slot' and ':fragment'
TypeById(type) == type # <<>> /\ IsDigit(type[1])
FnCell(name) == [t |-> "fn", n |-> 0, s |-> name]
JSXType(type) ==
  IF type \in {<<58, 115, 108, 111, 116>>, <<58, 102, 114, 97, 103, 109, 101, 110, 116>>}
  THEN FnCell(type)
  ELSE StrCell(type)

\* atob: the bytes of base64 text without padding, <<-1>> standing for the
\* InvalidCharacterError thrown for a character outside the alphabet or a text
\* whose length is 1 modulo 4
Sextet(ch) ==
  IF ch \in 65..90 THEN ch - 65
  ELSE IF ch \in 97..122 THEN ch - 71
  ELSE IF ch \in 48..57 THEN ch + 4
  ELSE IF ch = 43 THEN 62
  ELSE IF ch = 47 THEN 63
  ELSE -1
atob(text) ==
  LET L == Len(text)
      six(j) == IF j <= L THEN Sextet(text[j]) ELSE 0
      byte(j) ==
        LET g == 4 * ((j - 1) \div 3) IN
        IF (j - 1) % 3 = 0 THEN six(g + 1) * 4 + six(g + 2) \div 16
        ELSE IF (j - 1) % 3 = 1 THEN (six(g + 2) % 16) * 16 + six(g + 3) \div 4
        ELSE (six(g + 3) % 4) * 64 + six(g + 4)
  IN  IF L % 4 = 1 \/ \E j \in 1..L : Sextet(text[j]) = -1 THEN <<-1>>
      ELSE [j \in 1..DecodedLength(L) |-> byte(j)]

\* inflate (lines 295-412): the root ids the case of the tag resolves, in
\* the order of its $getObjectById$ calls
InflateIds(data) ==
  LET tag == data[1]
      first == restInt(data, 1)
      idx2 == RestScan(data, 1, 0)
      semiIdx == CharIndexOf(data, 59, 0)
  IN
  IF tag = QRL_VALUE
  THEN [j \in 1..Len(captureIds(data)) |-> parseInt(captureIds(data)[j])]
  ELSE IF tag = DerivedSignal_VALUE THEN RestInts(data, idx2)
  ELSE IF tag = Signal_VALUE
  THEN <<parseInt(Substring(data, 1, IF semiIdx = -1 THEN Len(data) ELSE semiIdx))>>
       \o SubIds(SubSegmentsOf(data))
  ELSE IF tag \in {SignalWrapper_VALUE, Error_VALUE, Set_VALUE, Map_VALUE}
  THEN <<first>>
  ELSE IF tag = Promise_VALUE
  THEN IF ~first.nan /\ first.n >= 0 THEN <<first>>
       ELSE <<Num(BitNot(IF first.nan THEN 0 ELSE first.n))>>
  ELSE IF tag = PropsProxy_VALUE THEN <<first, restInt(data, idx2)>>
  ELSE IF tag = Component_VALUE
  THEN [j \in 1..Len(captureIds(data)) |-> parseInt(captureIds(data)[j])]
  ELSE IF tag = Task_VALUE
  THEN LET toks == RestTokens(data, 1, 5)
       IN  <<parseInt(toks[3])>>
           \o [j \in 1..Len(captureIds(toks[4])) |-> parseInt(captureIds(toks[4])[j])]
           \o (IF toks[5] # <<>> THEN <<parseInt(toks[5])>> ELSE <<>>)
  ELSE IF tag = FormData_VALUE THEN <<first>>
  ELSE IF tag = JSXNode_VALUE
  THEN LET toks == RestTokens(data, 1, 4)
       IN  (IF TypeById(toks[1]) THEN <<parseInt(toks[1])>> ELSE <<>>)
           \o <<parseInt(toks[2]), parseInt(toks[3]), parseInt(toks[4])>>
  ELSE <<>>

\* the frames of the call stack
Frame(op, n, i) ==
  [op |-> op, n |-> n, i |-> i, k |-> 0, data |-> <<>>, todo |-> <<>>,
   vals |-> <<>>, stage |-> 1, res |-> Undef,
   step |-> 0, toks |-> <<>>, ids |-> <<>>, saved |-> <<>>, call |-> 0]
\* a call of inflate(container, target, needsInflationData); step counts the
\* statements of its case that have run, toks the tokens it has read from
\* the cursor and ids the root ids it has asked for
InflateFrame(k, data, res) ==
  [Frame("inflate", 0, 0) EXCEPT !.k = k, !.data = data, !.res = res]

Top(m) == Last(m.stk)
Return(m, N, val) == [m EXCEPT !.N = N, !.stk = Front(m.stk), !.mode = "ret", !.ret = val]
Goto(m, N, frame) ==
  [m EXCEPT !.N = N, !.stk = Append(Front(m.stk), frame), !.mode = "call"]
Call(m, frame, callee) ==
  [m EXCEPT !.stk = Append(Append(Front(m.stk), frame), callee), !.mode = "call"]
\* the read throws: why is "allocate" for allocate's 'Not implemented' and
\* 'unknown allocate type' errors (lines 423, 483), "inflate" for inflate's
\* 'Not implemented' (lines 315, 408), and "type" for a TypeError or DOMException
\* raised by the platform
Throw(m, why) == [m EXCEPT !.err = TRUE, !.why = why]
\* the runs of allocate and inflate made for the value of field i of container n
Ran(m, fns, n, i) == [m EXCEPT !.ev = @ \o [j \in 1..Len(fns) |-> <<fns[j], n, i>>]]

\* $getObjectById$ called from frame: a read of the slot, or undefined
Fetch(m, frame, slot) ==
  IF slot.n = 0
  THEN [m EXCEPT !.stk = Append(Front(m.stk), frame), !.mode = "ret", !.ret = Undef]
  ELSE Call(m, frame, Frame("get", slot.n, slot.i))

\* lines 159-162: the value may replace the tagged string in the container
Cacheable_Always(val) == TRUE
Cacheable_Never(val) == FALSE
Cacheable(val) == val.t # "s" \/ (Len(val.s) > 0 /\ val.s[1] >= LAST_VALUE)

\* line 174: the codes whose value is inflated after it is stored
NeedsInflate_Above(typeCode) == typeCode > Error_VALUE
NeedsInflate(typeCode) == typeCode >= Error_VALUE

\* getOrCreateProxy(target, container): one store proxy per target
StoreOf(N, target) ==
  LET has == {k \in 1..Len(N) : N[k].kind = "store" /\ N[k].f = <<target>>}
  IN  IF has # {} THEN Ret(N, RefCell(CHOOSE k \in has : TRUE))
      ELSE Ret(Append(N, [Node("store", 0) EXCEPT !.f = <<target>>]), RefCell(Len(N) + 1))

\* DeserializationHandler.get (lines 99-120) on a wrapper whose target is
\* the store proxy fr.n: the property is looked up in the unwrapped target
\* of the store; an escaped string is returned without its prefix, and every
\* other value is read through the store, that is through the wrapper of
\* the store's target
StoreGet_Cached(m) ==
  LET fr == Top(m)
      unwrapped == m.N[fr.n].f[1].n
      raw == m.N[unwrapped].f[fr.i]
  IN  IF raw.t = "s" /\ Len(raw.s) >= 1 /\ raw.s[1] = String_VALUE
      THEN Return(m, [m.N EXCEPT ![unwrapped].f[fr.i] = StrCell(Tail(raw.s))],
                  StrCell(Tail(raw.s)))
      ELSE Goto(m, m.N, Frame("get", unwrapped, fr.i))
StoreGet(m) ==
  LET fr == Top(m)
      unwrapped == m.N[fr.n].f[1].n
      unwrappedPropValue == m.N[unwrapped].f[fr.i]
  IN  IF /\ unwrappedPropValue.t = "s"
         /\ Len(unwrappedPropValue.s) >= 1
         /\ unwrappedPropValue.s[1] = String_VALUE
      THEN Return(Ran(m, <<"allocate">>, fr.n, fr.i), m.N,
                  allocate(m.N, unwrappedPropValue.s).val)
      ELSE Goto(m, m.N, Frame("get", unwrapped, fr.i))

\* DeserializationHandler.get (lines 95-181), up to its first nested call.
GetCall(m) ==
  LET fr == Top(m)
      N == m.N
      pv == N[fr.n].f[fr.i]
      typeCode == pv.s[1]
      a == allocate(N, pv.s)
      cached == [a.N EXCEPT ![fr.n].f[fr.i] = a.val]
  IN
  IF N[fr.n].kind = "store" THEN StoreGet(m)
  ELSE IF pv.t = "g" THEN Return(m, N, ComputedBy(pv.n))
  ELSE IF ~IsTagged(pv) THEN Return(m, N, pv)
  ELSE IF typeCode = REFERENCE_VALUE
  THEN Fetch(m, [Frame("reference", fr.n, fr.i) EXCEPT !.data = pv.s],
             Slot(N, parseInt(Tail(pv.s))))
  ELSE IF typeCode = VNode_VALUE
  THEN Return(m, [N EXCEPT ![fr.n].f[fr.i] = VNodeCell(Tail(pv.s))], VNodeCell(Tail(pv.s)))
  ELSE IF typeCode = Store_VALUE
  THEN Fetch(m, [Frame("store", fr.n, fr.i) EXCEPT !.data = pv.s],
             Slot(N, parseInt(Tail(pv.s))))
  ELSE IF typeCode = DerivedSignal_VALUE /\ N[fr.n].kind # "array"
  THEN Goto(m, N, [Frame("upgrade", fr.n, fr.i) EXCEPT !.k = 1])
  ELSE IF a.err THEN Throw(Ran(m, <<"allocate">>, fr.n, fr.i), "allocate")
  ELSE IF Cacheable(a.val)
  THEN IF NeedsInflate(typeCode)
       THEN Goto(Ran(m, <<"allocate", "inflate">>, fr.n, fr.i), cached,
                 InflateFrame(a.val.n, pv.s, a.val))
       ELSE Return(Ran(m, <<"allocate">>, fr.n, fr.i), cached, a.val)
  ELSE Return(Ran(m, <<"allocate">>, fr.n, fr.i), a.N, a.val)

\* lines 133-135 and 159-172: the referenced object has been resolved
ReferenceRet_NotStored(m) == Return(m, m.N, m.ret)
ReferenceRet(m) ==
  LET fr == Top(m) IN
  IF Cacheable(m.ret)
  THEN Return(m, [m.N EXCEPT ![fr.n].f[fr.i] = m.ret], m.ret)
  ELSE Return(m, m.N, m.ret)

\* lines 146-149 and 159-176: the store's target has been resolved; inflate
\* is called and does nothing for a store (line 327)
StoreRet(m) ==
  LET fr == Top(m)
      s == StoreOf(m.N, m.ret)
  IN  Goto(Ran(m, <<"inflate">>, fr.n, fr.i),
           [s.N EXCEPT ![fr.n].f[fr.i] = s.val], InflateFrame(0, fr.data, s.val))

\* inflate (lines 295-412) once every id has been resolved
InflateEnd_NoCase(m, fr) == Throw(m, "inflate")
InflateEnd(m, fr) ==
  LET N == m.N
      k == fr.k
      tag == fr.data[1]
      c == fr.vals[1]
      first == parseInt(fr.toks[1])
      toks == fr.toks
  IN
  IF tag \in {QRL_VALUE, PropsProxy_VALUE, Component_VALUE}
  THEN Return(m, [N EXCEPT ![k].f = fr.vals], fr.res)
  ELSE IF tag = Task_VALUE
  THEN     Return(m, [N EXCEPT ![k].f = fr.vals, ![k].text = toks[4],
                               ![k].subs = <<<<NumberCell(parseInt(toks[1])),
                                               NumberCell(parseInt(toks[2]))>>>>],
                  fr.res)
  ELSE IF tag = JSXNode_VALUE
  THEN     Return(m, [N EXCEPT ![k].f = IF TypeById(toks[1]) THEN fr.vals
                                        ELSE <<JSXType(toks[1])>> \o fr.vals,
                               ![k].subs = <<<<NumberCell(parseInt(toks[5]))>>>>,
                               ![k].text = toks[6]],
                  fr.res)
  ELSE IF tag = Uint8Array_VALUE
  THEN LET buf == atob(toks[1])
       IN  IF buf = <<-1>> THEN Throw(m, "type")
           ELSE Return(m, [N EXCEPT ![k].f = [j \in 1..Len(N[k].f) |->
                                               IF j <= Len(buf) THEN NumCell(buf[j])
                                               ELSE N[k].f[j]]],
                       fr.res)
  ELSE IF tag = FormData_VALUE
  THEN IF fr.stage = 1
       THEN IF ~IsContainer(N, c) \/ N[c.n].kind # "array" THEN Throw(m, "type")
            ELSE Goto(m, N, [fr EXCEPT !.stage = 2, !.n = c.n, !.vals = <<>>,
                               !.todo = [j \in 1..Len(N[c.n].f) |-> [n |-> c.n, i |-> j]]])
       ELSE IF fr.stage = 2
       THEN IF \E j \in 1..Len(fr.vals) :
                  ~IsContainer(N, fr.vals[j]) \/ N[fr.vals[j].n].kind # "array"
            THEN Throw(m, "type")
            ELSE Goto(m, N, [fr EXCEPT !.stage = 3, !.vals = <<>>,
                               !.todo = [j \in 1..(2 * Len(fr.vals)) |->
                                  LET pair == fr.vals[(j + 1) \div 2].n
                                      e == 2 - (j % 2)
                                  IN  IF e <= Len(N[pair].f) THEN [n |-> pair, i |-> e]
                                      ELSE [n |-> 0, i |-> 0]]])
       ELSE Return(m, [N EXCEPT ![k].f = fr.vals], fr.res)
  ELSE IF tag = DerivedSignal_VALUE
  THEN Return(m, [N EXCEPT ![k].f = fr.vals, ![k].text = toks[1]], fr.res)
  ELSE IF tag = Signal_VALUE
  THEN Return(m, [N EXCEPT ![k].f = <<c>>,
                           ![k].subs = SubTuples(IF Len(toks) > 1 THEN SegmentsIn(toks[2])
                                                 ELSE <<>>, Tail(fr.vals))],
              fr.res)
  ELSE IF tag = SignalWrapper_VALUE
  THEN Return(m, [N EXCEPT ![k].f = <<c>>,
                           ![k].text = toks[2]],
              fr.res)
  ELSE IF tag = Promise_VALUE
  THEN Return(m, [N EXCEPT ![k].f = <<c>>,
                           ![k].st = IF ~first.nan /\ first.n >= 0 THEN "fulfilled"
                                     ELSE "rejected"],
              fr.res)
  ELSE IF tag \in {Error_VALUE, Set_VALUE, Map_VALUE}
  THEN IF fr.stage = 1
       THEN IF tag # Error_VALUE /\ c = Undef THEN Throw(m, "type")
            ELSE IF ~IsContainer(N, c) \/ (tag # Error_VALUE /\ N[c.n].kind # "array")
            THEN Return(m, N, fr.res)
            ELSE Goto(m, N, [fr EXCEPT !.stage = 2, !.n = c.n, !.vals = <<>>,
                               !.todo = [j \in 1..Len(N[c.n].f) |-> [n |-> c.n, i |-> j]]])
       ELSE IF tag = Error_VALUE
       THEN Return(m, [N EXCEPT ![k].f = fr.vals, ![k].keys = N[fr.n].keys], fr.res)
       ELSE IF tag = Set_VALUE
       THEN Return(m, [N EXCEPT ![k].f = Distinct(fr.vals)], fr.res)
       ELSE Return(m, [N EXCEPT ![k].f = MapPairs(IF Len(fr.vals) % 2 = 1
                                                  THEN Append(fr.vals, Undef)
                                                  ELSE fr.vals)], fr.res)
  ELSE IF tag = Store_VALUE THEN Return(m, N, fr.res)
  ELSE Throw(m, "inflate")

\* lines 296-298: the cursor is pushed on restStack and set to the payload
InflateEnter(m, fr) ==
  [m EXCEPT !.restStack = @ \o <<m.rest, m.restIdx>>,
            !.rest = fr.data,
            !.restIdx = 1,
            !.calls = @ + 1,
            !.mode = "call",
            !.stk = Append(Front(m.stk),
                      [fr EXCEPT !.step = 1, !.call = m.calls + 1,
                                 !.saved = <<m.rest, m.restIdx, m.restStack>>])]

\* lines 410-411: the cursor is popped; the call is logged with the payload,
\* the tokens and ids it read, the cursor before and after it, and the number
\* of calls of inflate made while it ran
InflateExit_Keep(m, fr) ==
  [m EXCEPT !.cur = Append(@, [data |-> fr.data, toks |-> fr.toks, ids |-> fr.ids,
                               saved |-> fr.saved,
                               now |-> <<m.rest, m.restIdx, m.restStack>>,
                               inner |-> m.calls - fr.call])]
InflateExit(m, fr) ==
  LET restIdx == Last(m.restStack)
      rest == m.restStack[Len(m.restStack) - 1]
      restStack == SubSeq(m.restStack, 1, Len(m.restStack) - 2)
  IN  [m EXCEPT !.restIdx = restIdx, !.rest = rest, !.restStack = restStack,
                !.cur = Append(@, [data |-> fr.data, toks |-> fr.toks, ids |-> fr.ids,
                                   saved |-> fr.saved,
                                   now |-> <<rest, restIdx, restStack>>,
                                   inner |-> m.calls - fr.call])]

\* the case has run to its break, or throws: r is the machine after the
\* assignments of the case
InflateLeave(m, fr, r) ==
  IF r.err \/ Len(r.stk) >= Len(m.stk) THEN r ELSE InflateExit(r, fr)
InflateBreak(m, fr) == InflateLeave(m, fr, InflateEnd(m, fr))

\* the next statement of the case: toks are read, the cursor moves to idx,
\* then the ids are resolved one after the other
Proceed(m, fr, toks, idx, ids) ==
  [m EXCEPT !.restIdx = idx,
            !.mode = "call",
            !.stk = Append(Front(m.stk),
                      [fr EXCEPT !.step = @ + 1, !.toks = @ \o toks, !.ids = @ \o ids,
                                 !.todo = Slots(m.N, ids)])]
Ints(toks) == [j \in 1..Len(toks) |-> parseInt(toks[j])]

\* what a statement of a case does: it ends the case, or it makes k calls of
\* restString or restInt on the cursor (or takes toks from the payload
\* without the cursor, when k is 0) and then asks for ids
Break == [brk |-> TRUE, k |-> 0, toks |-> <<>>, ids |-> <<>>]
Reads(k, ids) == [brk |-> FALSE, k |-> k, toks |-> <<>>, ids |-> ids]
Takes(toks, ids) == [brk |-> FALSE, k |-> 0, toks |-> toks, ids |-> ids]

\* inflate (lines 299-409): statement fr.step of the case of the payload's
\* code.  tok is the token at the cursor (rest, restIdx) as it is when the
\* statement runs, id its integer value and third the third token from there.
InflateCase(m, fr, tok, id, third) ==
  LET tag == fr.data[1]
      step == fr.step
      semiIdx == CharIndexOf(fr.data, 59, 0)
  IN
  IF tag \in {QRL_VALUE, Component_VALUE}
  THEN IF step = 1 THEN Takes(<<>>, Ints(captureIds(fr.data))) ELSE Break
  ELSE IF tag = Task_VALUE
  THEN IF step = 1 THEN Reads(3, <<third>>)
       ELSE IF step = 2 THEN Reads(1, Ints(captureIds(tok)))
       ELSE IF step = 3 THEN Reads(1, IF tok # <<>> THEN <<id>> ELSE <<>>)
       ELSE Break
  ELSE IF tag = DerivedSignal_VALUE
  THEN IF step = 1 THEN Reads(1, <<>>)
       ELSE IF m.restIdx < Len(m.rest) THEN Reads(1, <<id>>)
       ELSE Break
  ELSE IF tag = Signal_VALUE
  THEN IF step = 1
       THEN LET value == Substring(m.rest, 1, IF semiIdx = -1 THEN Len(m.rest) ELSE semiIdx)
            IN  Takes(<<value>>, Ints(<<value>>))
       ELSE IF step = 2 /\ semiIdx > 0
       THEN LET value == Substring(m.rest, semiIdx + 1, Len(m.rest))
            IN  Takes(<<value>>, SubIds(SegmentsIn(value)))
       ELSE Break
  ELSE IF tag = SignalWrapper_VALUE
  THEN IF step = 1 THEN Reads(1, <<id>>)
       ELSE IF step = 2 THEN Reads(1, <<>>)
       ELSE Break
  ELSE IF tag \in {Error_VALUE, FormData_VALUE, Set_VALUE, Map_VALUE}
  THEN IF step = 1 THEN Reads(1, <<id>>) ELSE Break
  ELSE IF tag = Promise_VALUE
  THEN IF step = 1
       THEN Reads(1, IF ~id.nan /\ id.n >= 0 THEN <<id>>
                     ELSE <<Num(BitNot(IF id.nan THEN 0 ELSE id.n))>>)
       ELSE Break
  ELSE IF tag = JSXNode_VALUE
  THEN IF step = 1 THEN Reads(1, IF TypeById(tok) THEN <<id>> ELSE <<>>)
       ELSE IF step \in 2..4 THEN Reads(1, <<id>>)
       ELSE IF step = 5 THEN Reads(2, <<>>)
       ELSE Break
  ELSE IF tag = Uint8Array_VALUE
  THEN IF step = 1 THEN Reads(1, <<>>) ELSE Break
  ELSE IF tag = PropsProxy_VALUE
  THEN IF step \in 1..2 THEN Reads(1, <<id>>) ELSE Break
  ELSE Break

\* the statement is run on the machine
Tokens(m, fr, st) ==
  IF st.brk THEN InflateBreak(m, fr)
  ELSE IF st.k = 0 THEN Proceed(m, fr, st.toks, m.restIdx, st.ids)
  ELSE Proceed(m, fr, RestTokens(m.rest, m.restIdx, st.k),
               RestSkip(m.rest, m.restIdx, st.k), st.ids)

\* inflate: its entry, the next $getObjectById$ call (or property read of the
\* resolved array), or the next statement of its case
InflateStep(m) ==
  LET fr == IF m.mode = "ret" THEN [Top(m) EXCEPT !.vals = Append(@, m.ret)] ELSE Top(m)
  IN  IF fr.step = 0 THEN InflateEnter(m, fr)
      ELSE IF fr.todo # <<>> THEN Fetch(m, [fr EXCEPT !.todo = Tail(@)], Head(fr.todo))
      ELSE Tokens(m, fr, InflateCase(m, fr, restString(m.rest, m.restIdx),
                                     parseInt(restString(m.rest, m.restIdx)),
                                     parseInt(RestTokens(m.rest, m.restIdx, 3)[3])))

\* upgradePropsWithDerivedSignal (lines 239-265): key fr.k of the target
UpgradeStep(m) ==
  LET fr == Top(m)
      N == m.N
      j == fr.k
      value == N[fr.n].f[j]
      shell == Len(N) + 1
      N1 == [Append(N, Node("derived", 0)) EXCEPT ![fr.n].f[j] = Getter(shell)]
  IN
  IF j > Len(N[fr.n].f)
  THEN Return(m, [N EXCEPT ![fr.n].st = "upgraded", ![fr.n].constProps = fr.vals],
              ComputedBy(N[fr.n].f[fr.i].n))
  ELSE IF value.t = "s" /\ Len(value.s) >= 1 /\ value.s[1] = DerivedSignal_VALUE
  THEN [Ran(m, <<"allocate", "inflate">>, fr.n, j)
          EXCEPT !.N = N1, !.mode = "call",
                 !.stk = Append(Append(Front(m.stk),
                                       [fr EXCEPT !.k = j + 1,
                                                  !.vals = Append(@, <<j, shell>>)]),
                                InflateFrame(shell, value.s, Undef))]
  ELSE Goto(m, N, [fr EXCEPT !.k = j + 1])

Step(m) ==
  IF Top(m).op = "get" THEN GetCall(m)
  ELSE IF Top(m).op = "reference" THEN ReferenceRet(m)
  ELSE IF Top(m).op = "store" THEN StoreRet(m)
  ELSE IF Top(m).op = "inflate" THEN InflateStep(m)
  ELSE UpgradeStep(m)

RECURSIVE Run(_)
Run(m) == IF m.err \/ m.stk = <<>> THEN m ELSE Run(Step(m))

\* a property read through the wrapper of container n, run to completion
Get(N, n, i) ==
  Run([N |-> N, stk |-> <<Frame("get", n, i)>>, mode |-> "call", ret |-> Undef,
       err |-> FALSE, why |-> "", ev |-> <<>>,
       rest |-> <<>>, restIdx |-> 0, restStack |-> <<>>, calls |-> 0, cur |-> <<>>])

(***************************************************************************)
(* The reader.  It starts with the wrapper of the roots array (stateData)  *)
(* and reads properties of the wrappers it holds.                          *)
(***************************************************************************)
BeginDecode ==
  /\ pc = "encoded"
  /\ pc' = "decode"
  /\ known' = {1}
  /\ UNCHANGED <<heap, decl, map, roots, rootIdx, objRootsLength, rootObj,
                 discoveredValues, promises, rootIdOf, settled, reactions, jobs,
                 awaiting, hist, syncFns, nodes, stack, lastRead, lastCall>>

NodesIn(cells) == {cells[j].n : j \in {x \in 1..Len(cells) : cells[x].t = "o"}}

Read(n, i) ==
  /\ pc = "decode"
  /\ n \in known
  /\ nodes[n].kind \in {"array", "object"}
  /\ i \in 1..Len(nodes[n].f)
  /\ LET r == Get(nodes, n, i)
     IN  /\ nodes' = r.N
         /\ pc' = IF r.err THEN "error" ELSE pc
         /\ lastRead' = <<n, i, r.ret, r.ev, r.why, r.cur>>
         /\ known' = known \cup NodesIn(<<r.ret>>)
  /\ UNCHANGED <<heap, decl, map, roots, rootIdx, objRootsLength, rootObj,
                 discoveredValues, promises, rootIdOf, settled, reactions, jobs,
                 awaiting, hist, syncFns, stack, lastCall>>

\* the reader takes the values an inflated object holds: a promise's result,
\* a signal's value, a QRL's captures, ...
Inspect(k) ==
  /\ pc = "decode"
  /\ k \in known
  /\ nodes[k].kind \notin {"array", "object"}
  /\ ~(NodesIn(nodes[k].f) \subseteq known)
  /\ known' = known \cup NodesIn(nodes[k].f)
  /\ UNCHANGED <<heap, decl, pc, map, roots, rootIdx, objRootsLength, rootObj,
                 discoveredValues, promises, rootIdOf, settled, reactions, jobs,
                 awaiting, hist, syncFns, nodes, stack, lastRead, lastCall>>

(***************************************************************************)
(* The whole session: declare roots, walk and drain, serialize, then read  *)
(* the document lazily.                                                    *)
(***************************************************************************)
Ctl(ch) == <<ch, 120>>                    \* the character ch followed by "x"
LongCtl(ch) == <<ch>> \o LongText         \* ... followed by "qwik-serial"

CodecScenarios ==
  {
  \* r -> a, a.next = b, b.next = a
  Scn(<<Obj("literal", <<2>>), Obj("literal", <<3>>), Obj("literal", <<2>>)>>, <<1>>),
  \* the cycle a, b behind a derived signal's argument c
  Scn(<<Obj("literal", <<2>>), Derived(<<112, 48>>, <<>>, <<3>>), Obj("literal", <<4>>),
        Obj("literal", <<5>>), Obj("literal", <<4>>)>>, <<1>>),
  \* one object referenced from two fields
  Scn(<<Obj("literal", <<2, 2>>), Obj("literal", <<-7>>)>>, <<1>>),
  \* NaN, both infinities and two finite numbers in an array and in an object
  Scn(<<Obj("array", <<2, 3, 4, -5, 5>>), Obj("NaN", <<>>), Obj("Infinity", <<>>),
        Obj("-Infinity", <<>>), Obj("literal", <<4, 0, 2, 3>>)>>, <<1>>),
  \* one object referenced from a field and from a derived signal's argument
  Scn(<<Obj("array", <<2, 3>>), Obj("literal", <<-7>>),
        Derived(<<112, 48>>, <<>>, <<2>>)>>, <<1>>),
  \* one object referenced from a field and from a QRL capture
  Scn(<<Obj("array", <<2, 3>>), Obj("literal", <<>>),
        Qrl(<<99>>, <<115>>, <<2>>)>>, <<1>>),
  \* one object referenced from a signal's value and from a field
  Scn(<<Obj("array", <<2, 3>>), Sig(3, <<>>), Obj("literal", <<-1>>)>>, <<1>>),
  \* a set and a map sharing an element with a field, an error with a property
  Scn(<<Obj("array", <<2, 3, 4>>), Obj("set", <<4, -1>>), Obj("map", <<-1, 4>>),
        Obj("literal", <<>>)>>, <<1>>),
  Scn(<<Obj("array", <<2>>), Err(<<111, 111, 112, 115>>, <<-3>>)>>, <<1>>),
  \* a promise that resolves to a number
  Scn(<<Obj("literal", <<2>>), Prom("resolve", -42)>>, <<1>>),
  \* a promise that resolves to an object that is also a field
  Scn(<<Obj("literal", <<2, 3>>), Prom("resolve", 3), Obj("literal", <<-1>>)>>, <<1>>),
  \* a declared promise that rejects with an error
  Scn(<<Prom("reject", 2), Err(<<110, 111>>, <<>>)>>, <<1>>),
  \* the rejection reason is the first root: its root id is 0
  Scn(<<Obj("literal", <<-5>>), Prom("reject", 1)>>, <<1, 2>>),
  \* a promise referenced twice
  Scn(<<Obj("array", <<2, 2>>), Prom("resolve", -5)>>, <<1>>),
  \* a promise resolving to an object that holds another promise
  Scn(<<Obj("literal", <<2>>), Prom("resolve", 3), Obj("literal", <<4>>),
        Prom("resolve", -9)>>, <<1>>),
  \* a URL, a date and a value that is not serialized as fields
  Scn(<<Obj("literal", <<2, 3, 4>>), Txt("url", <<104, 58>>), Txt("date", <<49>>),
        Obj("noserialize", <<>>)>>, <<1>>),
  \* a set captured by a QRL
  Scn(<<Obj("literal", <<2>>), Qrl(<<99>>, <<115>>, <<3>>), Obj("set", <<-1, -2>>)>>,
      <<1>>),
  \* a store as a field
  Scn(<<Obj("literal", <<2>>), Store(3, <<>>), Obj("literal", <<-1>>)>>, <<1>>),
  \* a signal whose subscriber host is referenced from nowhere else
  Scn(<<Obj("array", <<2>>), Sig(-1, <<<<0, 3>>>>), Obj("literal", <<-2>>)>>, <<1>>),
  \* an object holding two derived signals as fields
  Scn(<<Obj("literal", <<2, 4>>), Derived(<<112, 48>>, <<>>, <<3>>),
        Obj("literal", <<-1>>), Derived(<<112, 48>>, <<>>, <<3>>)>>, <<1>>)
  }
  \cup
  \* for every control character: a short string as a field and as a
  \* declared root; a long string referenced from two fields
  {Scn(<<Obj("literal", <<2, 3>>), Str(Ctl(ch)), Obj("literal", <<2, 4, 4>>),
         Str(LongCtl(ch))>>, <<1, 2>>) : ch \in 0..(LAST_VALUE - 1)}

Init == InitOf(CodecScenarios)
Next ==
  \/ DeclareRoot
  \/ BeginBreak
  \/ WalkNextRoot
  \/ WalkStep
  \/ WalkEnd
  \/ \E p \in 1..Len(heap) : Settle(p)
  \/ RunCallback
  \/ RunAllSettled
  \/ RunDrain
  \/ BeginSerialize
  \/ EncodeStep
  \/ BeginDecode
  \/ \E n \in 1..Len(nodes) : \E i \in 1..Len(nodes[n].f) : Read(n, i)
  \/ \E k \in 1..Len(nodes) : Inspect(k)
Spec == Init /\ [][Next]_vars

(***************************************************************************)
(* What the document was written for.  SrcOf(n, j) is the source value of  *)
(* entry j of the container n the encoder wrote.                           *)
(***************************************************************************)
Written == {n \in 1..Len(nodes) : nodes[n].kind \in {"array", "object"}}
Entries == {e \in Written \X (1..8) : e[2] <= Len(nodes[e[1]].f)}
SrcOf(n, j) ==
  LET o == nodes[n].src
      idx == IF nodes[n].kind = "object" THEN nodes[n].keys[j] ELSE j
  IN  IF idx = 0 THEN o ELSE IF o = 0 THEN roots[idx] ELSE heap[o].refs[idx]
Copies(o) == {n \in Written : nodes[n].src = o /\ nodes[n].keys # <<0>>}

(***************************************************************************)
(* C7: for a graph with a cycle a.next = b, b.next = a reachable from a    *)
(* declared root, walking then encoding terminates (the encoder never      *)
(* aborts and never writes an object inside itself), and lazily decoding   *)
(* the document yields a' and b' with a'.next identical to b' and b'.next  *)
(* identical to a'.                                                        *)
(***************************************************************************)
CyclePairs ==
  {p \in (1..Len(heap)) \X (1..Len(heap)) :
     /\ p[1] # p[2]
     /\ KindOf(p[1]) = "literal" /\ KindOf(p[2]) = "literal"
     /\ p[2] \in Range(heap[p[1]].refs) /\ p[1] \in Range(heap[p[2]].refs)
     /\ p[1] \in Reachable(hist.declared)}
NoReentry ==
  \A x, y \in 1..Len(stack) : x < y => stack[x].val # stack[y].val
\* the decoded objects that the entries of n written for o, and already
\* read, refer to
Follow(n, o) ==
  {nodes[n].f[j].n : j \in {x \in 1..Len(nodes[n].f) :
                             SrcOf(n, x) = o /\ nodes[n].f[x].t = "o"}}
C7_CycleRoundTrip ==
  CyclePairs # {} =>
    /\ pc # "error"
    /\ NoReentry
    /\ pc = "decode" =>
         \A p \in CyclePairs :
           \A a1 \in known \cap Copies(p[1]) :
             \A b1 \in Follow(a1, p[2]) :
               /\ nodes[b1].src = p[2]
               /\ \A a2 \in Follow(b1, p[1]) : a2 = a1

(***************************************************************************)
(* C8: every object referenced from two or more places in the encoded      *)
(* graph (a signal value, a subscriber entry, a derived signal's argument  *)
(* and a QRL capture count as places) has its content written once in the  *)
(* document, every other occurrence being a back-reference, so that lazy   *)
(* decoding yields one single instance at all occurrences.                 *)
(***************************************************************************)
C8_SharedWrittenOnce ==
  pc \in {"encoded", "decode"} =>
    \A o \in Reachable(hist.declared) :
      (KindOf(o) \in {"literal", "array"} /\ RefCount(hist.declared, o) >= 2)
        => /\ Cardinality(Copies(o)) <= 1
           /\ \A n1, n2 \in known \cap Copies(o) : n1 = n2

(***************************************************************************)
(* C9 as stated: for each of the 32 characters C with code 0x00..0x1f and  *)
(* any suffix, the string C+suffix stored as a field value is encoded with *)
(* the string-escape tag prefixed, and every read of that field through    *)
(* the lazy wrapper returns exactly C+suffix, never a value of another     *)
(* kind.                                                                   *)
(***************************************************************************)
CtlString(v) ==
  KindOf(v) = "string" /\ heap[v].chars # <<>> /\ heap[v].chars[1] < LAST_VALUE
Escaped(v) == Tagged(String_VALUE, heap[v].chars)
ReadsExact ==
  (pc = "decode" /\ lastRead # <<>> /\ CtlString(SrcOf(lastRead[1], lastRead[2])))
    => lastRead[3] = StrCell(heap[SrcOf(lastRead[1], lastRead[2])].chars)
C9_ControlStringsEscaped ==
  pc \in {"encoded", "decode"} =>
    /\ \A e \in Entries :
         CtlString(SrcOf(e[1], e[2])) => nodes[e[1]].f[e[2]] = Escaped(SrcOf(e[1], e[2]))
    /\ ReadsExact

(***************************************************************************)
(* C9 amended: the string C+suffix stored as a field value is encoded with *)
(* the string-escape tag prefixed, or, when it is longer than 10           *)
(* characters and has a root id, as a back-reference to its root slot,     *)
(* which holds the string with the string-escape tag prefixed; every read  *)
(* of the field through the lazy wrapper returns exactly C+suffix.         *)
(***************************************************************************)
BackReferenced(n, j, v) ==
  /\ n # 1
  /\ Len(heap[v].chars) > ShortStringMax
  /\ IsRooted(map, v)
  /\ nodes[n].f[j] = Tagged(REFERENCE_VALUE, IntStr(map[v]))
  /\ nodes[1].f[map[v] + 1] = Escaped(v)
C9_ControlStringsRoundTrip ==
  pc \in {"encoded", "decode"} =>
    /\ \A e \in Entries :
         CtlString(SrcOf(e[1], e[2]))
           => \/ nodes[e[1]].f[e[2]] = Escaped(SrcOf(e[1], e[2]))
              \/ BackReferenced(e[1], e[2], SrcOf(e[1], e[2]))
    /\ ReadsExact
C9_Witness ==
  /\ pc = "decode"
  /\ lastRead # <<>>
  /\ CtlString(SrcOf(lastRead[1], lastRead[2]))
  /\ BackReferenced(lastRead[1], lastRead[2], SrcOf(lastRead[1], lastRead[2]))
  /\ lastRead[3] = StrCell(heap[SrcOf(lastRead[1], lastRead[2])].chars)

(***************************************************************************)
(* C10: an async value that resolves to v is encoded, after the drain, as  *)
(* the promise tag followed by the non-negative root id of v, and decodes  *)
(* to a promise resolved with the object at that root id; one that rejects *)
(* with reason r is encoded as the promise tag followed by the bitwise     *)
(* complement of r's root id (negative for every root id, 0 included) and  *)
(* decodes to a promise rejected with the object at r's root id.           *)
(***************************************************************************)
Settles(p) == KindOf(p) = "promise" /\ heap[p].fate # "never"
PromiseText(p) ==
  LET id == map[heap[p].refs[1]]
  IN  Tagged(Promise_VALUE, IntStr(IF heap[p].fate = "resolve" THEN id ELSE BitNot(id)))
\* a value read from a root slot, as the slot holds it
Plain(cell) ==
  IF IsTagged(cell) /\ cell.s[1] = String_VALUE THEN StrCell(Tail(cell.s)) ELSE cell
EncodedAsPromise(n, j, p) ==
  nodes[n].f[j].t = "s" =>
    \/ n # 1 /\ IsRooted(map, p) /\ nodes[n].f[j] = Tagged(REFERENCE_VALUE, IntStr(map[p]))
    \/ /\ IsRooted(map, heap[p].refs[1])
       /\ roots[map[heap[p].refs[1]] + 1] = heap[p].refs[1]
       /\ nodes[n].f[j] = PromiseText(p)
       /\ heap[p].fate = "reject" => BitNot(map[heap[p].refs[1]]) < 0
DecodedAsPromise(n, j, p) ==
  (nodes[n].f[j].t = "o" /\ nodes[nodes[n].f[j].n].kind = "promise") =>
    LET s == nodes[n].f[j].n
    IN  /\ nodes[s].st = IF heap[p].fate = "resolve" THEN "fulfilled" ELSE "rejected"
        /\ IsRooted(map, heap[p].refs[1])
        /\ nodes[s].f = <<Plain(nodes[1].f[map[heap[p].refs[1]] + 1])>>
        /\ SrcOf(1, map[heap[p].refs[1]] + 1) = heap[p].refs[1]
EncodingAborted ==
  /\ pc = "error"
  /\ stack # <<>>
  /\ Last(stack).i <= Len(ElemsOf(Last(stack).val))
  /\ Settles(ElemsOf(Last(stack).val)[Last(stack).i])
C10_PromiseRoundTrip ==
  /\ ~EncodingAborted
  /\ pc \in {"encoded", "decode"} =>
       \A e \in Entries :
         Settles(SrcOf(e[1], e[2]))
           => /\ EncodedAsPromise(e[1], e[2], SrcOf(e[1], e[2]))
              /\ DecodedAsPromise(e[1], e[2], SrcOf(e[1], e[2]))

(***************************************************************************)
(* The context's functions and the encoder's helpers called one at a time, *)
(* in any order, as the encoder and the framework call them.               *)
(***************************************************************************)
P0Text == <<112, 48>>            \* "p0"
P1Text == <<112, 49>>            \* "p1"
BraceText == <<123, 97, 125>>    \* "{a}"
FnText == <<102>>                \* "f", the text fn.toString() gives

\* $addSyncFn$(funcStr, argCount, fn), <<>> standing for an undefined funcStr
CallAddSyncFn(funcStr, argCount, fn) ==
  /\ pc = "setup"
  /\ syncFns' = addSyncFn(syncFns, funcStr, argCount, fn)
  /\ lastCall' = Called("addSyncFn", <<IF funcStr = <<>> THEN fn ELSE funcStr>>,
                        addSyncFnId(syncFns, IF funcStr = <<>> THEN fn ELSE funcStr))
  /\ UNCHANGED <<heap, decl, pc, map, roots, rootIdx, objRootsLength, rootObj,
                 discoveredValues, promises, rootIdOf, settled, reactions, jobs,
                 awaiting, hist, nodes, stack, known, lastRead>>

\* serializeSignalDerived(serializationContext, value, $addRoot$)
CallSerializeSignalDerived(v) ==
  /\ pc = "setup"
  /\ KindOf(v) = "derived"
  /\ LET r == serializeSignalDerived(CtxNow, v)
     IN  /\ heap' = r.c.heap
         /\ map' = r.c.map
         /\ roots' = r.c.roots
         /\ syncFns' = r.c.syncFns
         /\ lastCall' = Called("derived", <<v>>, r.cell)
  /\ UNCHANGED <<decl, pc, rootIdx, objRootsLength, rootObj,
                 discoveredValues, promises, rootIdOf, settled, reactions, jobs,
                 awaiting, hist, nodes, stack, known, lastRead>>

CallScenarios == {
  \* two derived signals with one function text and different arguments, one
  \* whose text is an object literal, one without text
  Scn(<<Obj("literal", <<>>), Obj("literal", <<>>),
        Derived(P0Text, FnText, <<1>>), Derived(P0Text, FnText, <<2>>),
        Derived(BraceText, FnText, <<1, 2>>), Derived(<<>>, FnText, <<>>)>>, <<>>)
}

InitCalls == InitOf(CallScenarios)
CallNext ==
  \/ \E funcStr \in {<<>>, P0Text, P1Text} : \E argCount \in {0, 2} :
       \E fn \in {FnText, P0Text} : CallAddSyncFn(funcStr, argCount, fn)
  \/ \E v \in 1..Len(heap) : CallSerializeSignalDerived(v)
SpecCalls == InitCalls /\ [][CallNext]_vars

(***************************************************************************)
(* C11: after any sequence of $addSyncFn$ calls, a call returns the index  *)
(* of the table entry registered for its source text, no two entries are   *)
(* registered for one text (same text, same index; different text,         *)
(* different index), the table only grows by appending, and a derived      *)
(* signal is encoded as the index of its text followed by the root ids of  *)
(* its own arguments, so two derived signals with one text and different   *)
(* arguments share the index and differ in the ids.                        *)
(***************************************************************************)
SyncFnKeysDistinct ==
  \A j, k \in 1..Len(syncFns) : syncFns[j].key = syncFns[k].key => j = k
ReturnsIndexOfText ==
  lastCall.op = "addSyncFn"
    => /\ lastCall.ret \in 0..(Len(syncFns) - 1)
       /\ syncFns[lastCall.ret + 1].key = lastCall.args[1]
DerivedCell(v) ==
  LET key == IF heap[v].chars = <<>> THEN heap[v].aux ELSE heap[v].chars
  IN  Tagged(DerivedSignal_VALUE,
             Join(<<IntStr(SyncFnIndex(syncFns, key))>> \o
                  [k \in 1..Len(heap[v].refs) |-> IntStr(IndexOf(roots, heap[v].refs[k]))],
                  32))
DerivedEncoded ==
  lastCall.op = "derived"
    => /\ SyncFnIndex(syncFns, IF heap[lastCall.args[1]].chars = <<>>
                               THEN heap[lastCall.args[1]].aux
                               ELSE heap[lastCall.args[1]].chars) # -1
       /\ \A k \in 1..Len(heap[lastCall.args[1]].refs) :
            IndexOf(roots, heap[lastCall.args[1]].refs[k]) # -1
       /\ lastCall.ret = DerivedCell(lastCall.args[1])
C11_SyncFnTable ==
  [][/\ IsPrefix(syncFns, syncFns')
     /\ SyncFnKeysDistinct'
     /\ ReturnsIndexOfText'
     /\ DerivedEncoded']_vars

\* two derived signals with one text and different arguments were encoded
\* one after the other
C11_Witness ==
  /\ lastCall.op = "derived"
  /\ lastCall.prev.op = "derived"
  /\ heap[lastCall.args[1]].chars = heap[lastCall.prev.args[1]].chars
  /\ heap[lastCall.args[1]].refs # heap[lastCall.prev.args[1]].refs
  /\ lastCall.ret # lastCall.prev.ret
  /\ Len(syncFns) >= 2

(***************************************************************************)
(* Reads of lazy fields.  A step that changes the document or the latest   *)
(* read is a property read; lastRead holds the runs it made.               *)
(***************************************************************************)
ContainerFields ==
  {e \in UNION {{<<n, i>> : i \in 1..Len(nodes[n].f)} : n \in 1..Len(nodes)} :
     nodes[e[1]].kind \in {"array", "object"}}
RunsOf(fn, n, i) ==
  Cardinality({j \in 1..Len(lastRead[4]) : lastRead[4][j] = <<fn, n, i>>})
\* what a read of a field holding cell returns when nothing is left to decode
Yields(cell) == IF cell.t = "g" THEN ComputedBy(cell.n) ELSE cell
\* a read that completed
ReadDone ==
  /\ pc = "decode"
  /\ pc' = "decode"
  /\ lastRead' # <<>>
  /\ (lastRead' # lastRead \/ nodes' # nodes)
\* a field that holds no tagged string is left alone by every read, and a
\* read of it returns the value it holds without running allocate or inflate
MaterializedStays ==
  ReadDone =>
    \A e \in ContainerFields :
      ~IsTagged(nodes[e[1]].f[e[2]])
        => /\ nodes'[e[1]].f[e[2]] = nodes[e[1]].f[e[2]]
           /\ RunsOf("allocate", e[1], e[2])' = 0
           /\ RunsOf("inflate", e[1], e[2])' = 0
           /\ (lastRead'[1] = e[1] /\ lastRead'[2] = e[2])
                => lastRead'[3] = Yields(nodes[e[1]].f[e[2]])
\* the first read of a tagged string that gives a value other than a string
\* stores that value in the field
FirstReadStores ==
  ReadDone =>
    LET n == lastRead'[1]
        i == lastRead'[2]
    IN  (IsTagged(nodes[n].f[i]) /\ lastRead'[3].t # "s")
          => /\ ~IsTagged(nodes'[n].f[i])
             /\ Yields(nodes'[n].f[i]) = lastRead'[3]

RunsFor(fn, tag) ==
  IF tag = REFERENCE_VALUE THEN 0
  ELSE IF tag = Store_VALUE THEN (IF fn = "inflate" THEN 1 ELSE 0)
  ELSE IF fn = "allocate" \/ tag >= Error_VALUE THEN 1
  ELSE 0

IsSetOrMap(v) == KindOf(v) \in {"set", "map"}
\* the decoded value cell stands for the source value v
StandsFor(cell, v) ==
  IF v <= 0 THEN cell = NumCell(-v)
  ELSE IF KindOf(v) \in NotFiniteKinds
  THEN cell = (IF KindOf(v) = "NaN" THEN NaNCell
               ELSE InfCell(IF KindOf(v) = "Infinity" THEN 1 ELSE -1))
  ELSE IF KindOf(v) = "string" THEN cell = StrCell(heap[v].chars)
  ELSE /\ cell.t = "o"
       /\ \/ nodes[cell.n].src = v
          \/ nodes[cell.n].src = 0 /\ nodes[cell.n].kind = KindOf(v)
ContentsRooted(n, j, v) ==
  (nodes[n].f[j].t = "s" /\ nodes[n].f[j].s[1] # REFERENCE_VALUE) =>
    /\ HasEntry(rootIdOf, v)
    /\ rootIdOf[v] \in 0..(Len(roots) - 1)
    /\ KindOf(roots[rootIdOf[v] + 1]) = "array"
    /\ heap[roots[rootIdOf[v] + 1]].refs = heap[v].refs
    /\ nodes[n].f[j] = Tagged(IF KindOf(v) = "set" THEN Set_VALUE ELSE Map_VALUE,
                              IntStr(rootIdOf[v]))
DecodedInOrder(n, j, v) ==
  (nodes[n].f[j].t = "o" /\ IsSetOrMap(v)) =>
    LET s == nodes[nodes[n].f[j].n]
    IN  /\ s.kind = KindOf(v)
        /\ Len(s.f) = Len(heap[v].refs)
        /\ \A k \in 1..Len(s.f) : StandsFor(s.f[k], heap[v].refs[k])
SetOrMapAborted ==
  /\ pc = "error"
  /\ stack # <<>>
  /\ Last(stack).i <= Len(ElemsOf(Last(stack).val))
  /\ IsSetOrMap(ElemsOf(Last(stack).val)[Last(stack).i])
C13_SetMapOrder ==
  /\ ~SetOrMapAborted
  /\ pc \in {"encoded", "decode"} =>
       \A e \in Entries :
         IsSetOrMap(SrcOf(e[1], e[2]))
           => /\ ContentsRooted(e[1], e[2], SrcOf(e[1], e[2]))
              /\ DecodedInOrder(e[1], e[2], SrcOf(e[1], e[2]))

(***************************************************************************)
(* writeString (lines 825-835): the text is JSON-stringified and written   *)
(* to the sink in pieces, '<\/' in place of every '</'.                    *)
(***************************************************************************)
\* JSON.stringify of a string of the characters < / \ " a
JSONStringify(text) ==
  <<34>> \o Flatten([k \in 1..Len(text) |->
                      IF text[k] \in {34, 92} THEN <<92, text[k]>> ELSE <<text[k]>>])
         \o <<34>>

\* text.indexOf('</', from), 0-based
AngleBracketIdx(text, from) ==
  LET hits == {k \in from..(Len(text) - 2) : text[k + 1] = 60 /\ text[k + 2] = 47}
  IN  IF hits = {} THEN -1 ELSE CHOOSE k \in hits : \A h \in hits : k <= h

\* the pieces the loop and the final write hand to $writer$.write, in order
RECURSIVE WriteChunks(_, _)
WriteChunks_Plain(text, lastIdx) == <<text>>
WriteChunks(text, lastIdx) ==
  LET angleBracketIdx == AngleBracketIdx(text, lastIdx)
  IN  IF angleBracketIdx # -1
      THEN <<Substring(text, lastIdx, angleBracketIdx), <<60, 92, 47>>>>
             \o WriteChunks(text, angleBracketIdx + 2)
      ELSE <<IF lastIdx = 0 THEN text ELSE Substring(text, lastIdx, Len(text))>>
writeString(text) == WriteChunks(JSONStringify(text), 0)

CallWriteString(v) ==
  /\ pc = "setup"
  /\ KindOf(v) = "string"
  /\ lastCall' = Called("writeString", <<heap[v].chars>>, writeString(heap[v].chars))
  /\ UNCHANGED <<heap, decl, pc, map, roots, rootIdx, objRootsLength, rootObj,
                 discoveredValues, promises, rootIdOf, settled, reactions, jobs,
                 awaiting, hist, syncFns, nodes, stack, known, lastRead>>

TextAlphabet == {60, 47, 92, 34, 97}     \* < / \ " a
Texts == UNION {[1..n -> TextAlphabet] : n \in 0..MaxText}
TextScenarios == {Scn(<<Str(text)>>, <<>>) : text \in Texts}
InitText == InitOf(TextScenarios)
TextNext == \E v \in 1..Len(heap) : CallWriteString(v)
SpecText == InitText /\ [][TextNext]_vars

(***************************************************************************)
(* C14: for every string passed to writeString, the text the call appends  *)
(* to the sink holds no '</' anywhere; every '</' of the stringified text  *)
(* is written as '<\/' and the rest is unchanged, so that putting '</'     *)
(* back for the written '<\/' gives the stringified text again.            *)
(***************************************************************************)
Sink(chunks) == Flatten(chunks)
Restored(chunks) ==
  Flatten([k \in 1..Len(chunks) |-> IF k % 2 = 0 THEN <<60, 47>> ELSE chunks[k]])
C14_NoClosingTag ==
  lastCall.op = "writeString"
    => /\ AngleBracketIdx(Sink(lastCall.ret), 0) = -1
       /\ \A k \in 1..Len(lastCall.ret) : k % 2 = 0 => lastCall.ret[k] = <<60, 92, 47>>
       /\ Restored(lastCall.ret) = JSONStringify(lastCall.args[1])

\* '<</' followed by a second '</' has been written
C14_Witness ==
  /\ lastCall.op = "writeString"
  /\ lastCall.args[1] = <<60, 60, 47, 60>>
  /\ Sink(lastCall.ret) = <<34, 60, 60, 92, 47, 60, 34>>

(***************************************************************************)
(* $getRootId$ (lines 642-648) beside $seen$ and $addRoot$.                *)
(***************************************************************************)
\* !id holds for an absent entry and for the id 0
getRootId(mp, obj) ==
  IF ~HasEntry(mp, obj) \/ mp[obj] = 0 \/ mp[obj] = MIN_SAFE_INTEGER
  THEN [throws |-> TRUE, id |-> -1]
  ELSE [throws |-> FALSE, id |-> mp[obj]]

ApiGetRootId(v) ==
  /\ pc = "setup"
  /\ decl = <<>>
  /\ lastCall' = Called("getRootId", <<v>>, getRootId(map, v))
  /\ UNCHANGED <<heap, decl, pc, map, roots, rootIdx, objRootsLength, rootObj,
                 discoveredValues, promises, rootIdOf, settled, reactions, jobs,
                 awaiting, hist, syncFns, nodes, stack, known, lastRead>>

RootIdNext ==
  \/ \E v \in ApiValues : ApiSeen(v)
  \/ \E v \in ApiValues : ApiAddRoot(v)
  \/ \E v \in ApiValues : ApiGetRootId(v)
SpecRootId == InitApi /\ [][RootIdNext]_vars

(***************************************************************************)
(* C15: $getRootId$ returns the root id of every object that $addRoot$ has *)
(* rooted, for every id the root list can hold from the first root (id 0)  *)
(* on, creates no root, and throws exactly when the object is unseen or    *)
(* only seen once.                                                         *)
(***************************************************************************)
GetRootIdCalled ==
  /\ lastCall'.op = "getRootId"
  /\ lastCall' # lastCall
  /\ UNCHANGED <<map, roots>>
C15_GetRootId ==
  [][GetRootIdCalled =>
       IF IsRooted(map, lastCall'.args[1])
       THEN /\ ~lastCall'.ret.throws
            /\ lastCall'.ret.id = map[lastCall'.args[1]]
            /\ roots[lastCall'.ret.id + 1] = lastCall'.args[1]
       ELSE lastCall'.ret.throws]_vars

(***************************************************************************)
(* The lazy wrapper over a document as the reader receives it: reads and   *)
(* writes of properties, also of documents the encoder above would not     *)
(* have written.                                                           *)
(***************************************************************************)
Resource_VALUE == 18
\* the codes below LAST_VALUE that name no kind: the five kept free for
\* white space (lines 1313-1321) and 0x1d, which the enumeration skips
UnusedTags == (9..13) \cup {Promise_VALUE + 1}

\* DeserializationHandler.set (lines 183-199): the cell stored for newValue
Escape_None(newValue) == newValue
Escape(newValue) ==
  IF newValue.t = "s" /\ Len(newValue.s) >= 1 /\ newValue.s[1] < LAST_VALUE
  THEN StrCell(<<String_VALUE>> \o newValue.s)
  ELSE newValue

WritesDone == IF lastCall.op = "set" THEN lastCall.args[4] ELSE 0

\* a property write through the wrapper of container n; a computed accessor
\* has no setter, so Reflect.set returns false and the write throws
Write(n, i, newValue) ==
  /\ pc = "decode"
  /\ n \in known
  /\ nodes[n].kind \in {"array", "object"}
  /\ i \in 1..Len(nodes[n].f)
  /\ WritesDone < MaxWrites
  /\ IF nodes[n].f[i].t = "g"
     THEN pc' = "error" /\ UNCHANGED nodes
     ELSE pc' = pc /\ nodes' = [nodes EXCEPT ![n].f[i] = Escape(newValue)]
  /\ lastCall' = [Called("set", <<n, i, newValue, WritesDone + 1>>, nodes[n].f[i].t # "g")
                    EXCEPT !.prev = <<>>]
  /\ lastRead' = <<>>
  /\ UNCHANGED <<heap, decl, map, roots, rootIdx, objRootsLength, rootObj,
                 discoveredValues, promises, rootIdOf, settled, reactions, jobs,
                 awaiting, hist, syncFns, stack, known>>

\* the values the application writes: for every control character a string
\* starting with it, other strings, a number
WriteValues ==
  {StrCell(<<ch, 120>>) : ch \in 0..(LAST_VALUE - 1)}
    \cup {StrCell(<<>>), StrCell(<<120>>), StrCell(<<LAST_VALUE>>),
          StrCell(<<String_VALUE>>), NumCell(7)}

\* the wrapper of the roots array holding cells
RootsOf(cells) == [Node("array", 0) EXCEPT !.f = cells]
Documents ==
  \* one object with a number, a string and a derived signal
  {<<RootsOf(<<RefCell(2)>>),
     [Node("object", 0) EXCEPT !.f = <<NumCell(7), StrCell(<<120>>),
                                       Tagged(DerivedSignal_VALUE, <<48>>)>>,
                               !.keys = <<1, 2, 3>>]>>}
  \* a root that starts with a code that cannot be decoded
    \cup {<<RootsOf(<<Tagged(tag, <<120>>)>>)>> : tag \in UnusedTags \cup {Resource_VALUE}}

InitDoc ==
  /\ nodes \in Documents
  /\ pc = "decode"
  /\ known = {1}
  /\ heap = <<>>
  /\ decl = <<>>
  /\ map = <<>>
  /\ roots = <<>>
  /\ rootIdx = 0
  /\ objRootsLength = 0
  /\ rootObj = 0
  /\ discoveredValues = <<>>
  /\ promises = <<>>
  /\ rootIdOf = <<>>
  /\ settled = <<>>
  /\ reactions = <<>>
  /\ jobs = <<>>
  /\ awaiting = 0
  /\ hist = HistInit
  /\ syncFns = <<>>
  /\ stack = <<>>
  /\ lastRead = <<>>
  /\ lastCall = NoCall
DocNext ==
  \/ \E n \in 1..Len(nodes) : \E i \in 1..Len(nodes[n].f) : Read(n, i)
  \/ \E n \in 1..Len(nodes) : \E i \in 1..Len(nodes[n].f) :
       \E newValue \in WriteValues : Write(n, i, newValue)
SpecDoc == InitDoc /\ [][DocNext]_vars

(***************************************************************************)
(* C16: for every string s, writing s to a field through the lazy wrapper  *)
(* and then reading the field through the wrapper returns exactly s: a     *)
(* string whose first character code is below 0x20 is stored with the      *)
(* string-escape prefix, any other value is stored unchanged, and a later  *)
(* read never takes the written string for a tagged value (it returns s    *)
(* and leaves the stored form in place).                                   *)
(***************************************************************************)
Written16 == lastCall.args[3]
StoredForm ==
  IF Written16.t = "s" /\ Len(Written16.s) >= 1 /\ Written16.s[1] < 32
  THEN StrCell(<<5>> \o Written16.s)
  ELSE Written16
C16_WriteThenRead ==
  (lastCall.op = "set" /\ lastCall.ret)
    => /\ nodes[lastCall.args[1]].f[lastCall.args[2]] = StoredForm
       /\ (lastRead # <<>> /\ lastRead[1] = lastCall.args[1]
                           /\ lastRead[2] = lastCall.args[2])
            => /\ pc = "decode"
               /\ lastRead[3] = Written16

\* a string starting with the back-reference character was written over a
\* field and read back
C16_Witness ==
  /\ lastCall.op = "set"
  /\ Written16 = StrCell(<<REFERENCE_VALUE, 120>>)
  /\ lastRead # <<>>
  /\ lastRead[1] = lastCall.args[1]
  /\ lastRead[2] = lastCall.args[2]
  /\ lastRead[3] = StrCell(<<REFERENCE_VALUE, 120>>)

(***************************************************************************)
(* C17: reading through the lazy wrapper a field whose stored string       *)
(* starts with a tag that has no decode rule (the unused codes 0x09..0x0d  *)
(* and 0x1d) or with the async-resource tag 0x12 raises an error, and the  *)
(* field still holds the original raw string afterwards: nothing is        *)
(* cached.                                                                 *)
(***************************************************************************)
Unsupported(cell) ==
  IsTagged(cell) /\ cell.s[1] \in {9, 10, 11, 12, 13, 29, 18}
C17_UnsupportedTagThrows ==
  [][(pc = "decode" /\ lastRead' # <<>> /\ lastRead' # lastRead
        /\ Unsupported(nodes[lastRead'[1]].f[lastRead'[2]]))
       => /\ pc' = "error"
          /\ nodes' = nodes]_vars

\* a read of a field holding the async-resource tag has thrown
C17_Witness ==
  /\ pc = "error"
  /\ lastRead # <<>>
  /\ nodes[lastRead[1]].f[lastRead[2]] = Tagged(18, <<120>>)

(***************************************************************************)
(* qrlToString called on its own, for every QRL of the heap under every    *)
(* platform answer, resolver answer and build mode.                        *)
(***************************************************************************)
ChunkText == <<99>>              \* "c"
SymbolText == <<115>>            \* "s"
CallQrlToString(v, env) ==
  /\ pc = "setup"
  /\ KindOf(v) = "qrl"
  /\ LET r == qrlToStringIn(env, CtxNow, v)
     IN  /\ heap' = r.c.heap
         /\ map' = r.c.map
         /\ roots' = r.c.roots
         /\ syncFns' = r.c.syncFns
         /\ lastCall' = [Called("qrlToString", <<v, env>>,
                                [ok |-> r.ok, asked |-> r.asked, text |-> r.text,
                                 before |-> <<map, roots, syncFns>>])
                           EXCEPT !.prev = <<>>]
  /\ UNCHANGED <<decl, pc, rootIdx, objRootsLength, rootObj,
                 discoveredValues, promises, rootIdOf, settled, reactions, jobs,
                 awaiting, hist, nodes, stack, known, lastRead>>

QrlScenarios == {
  \* QRLs with and without a chunk of their own, with and without captures
  Scn(<<Obj("literal", <<>>), Obj("literal", <<>>),
        Qrl(ChunkText, SymbolText, <<2>>), Qrl(<<>>, SymbolText, <<>>),
        Qrl(<<>>, SymbolText, <<1, 2>>)>>, <<>>)
}
QrlEnvs ==
  {QrlEnv(refSymbol, sync, fn, platform, resolver, isDev) :
     refSymbol \in BOOLEAN, sync \in BOOLEAN, fn \in {FnText},
     platform \in {<<>>, <<P1Text, BraceText>>, <<P1Text, <<>>>>},
     resolver \in {<<>>, P0Text}, isDev \in BOOLEAN}
InitQrl == InitOf(QrlScenarios)
QrlNext == \E v \in 1..Len(heap) : \E env \in QrlEnvs : CallQrlToString(v, env)
SpecQrl == InitQrl /\ [][QrlNext]_vars

QrlCalled == lastCall.op = "qrlToString"
\* the latest call was for a QRL that is not sync and gets a chunk from
\* neither itself, the platform nor the resolver
NoChunkAnywhere ==
  /\ QrlCalled
  /\ ~lastCall.args[2].sync
  /\ heap[lastCall.args[1]].aux = <<>>
  /\ lastCall.args[2].platform = <<>> \/ lastCall.args[2].platform[2] = <<>>
  /\ lastCall.args[2].resolver = <<>>
\* the "[ids]" a QRL's captures are written as
CapturesText(v) ==
  IF heap[v].refs = <<>> THEN <<>>
  ELSE <<91>> \o Join([k \in 1..Len(heap[v].refs) |->
                         IntStr(IndexOf(roots, heap[v].refs[k]))], 32) \o <<93>>
\* the call failed: no text, and the context is as it was
FailedMissingChunk ==
  /\ ~lastCall.ret.ok
  /\ lastCall.ret.text = <<>>
  /\ lastCall.ret.before = <<map, roots, syncFns>>
\* a sync QRL: the resolver was not asked, the chunk is empty and the symbol
\* is the index of the function in the closure table
SyncEncoded ==
  QrlCalled /\ lastCall.args[2].sync
    => /\ ~lastCall.ret.asked
       /\ lastCall.ret.ok
       /\ SyncFnIndex(syncFns, lastCall.args[2].fn) # -1
       /\ lastCall.ret.text = <<35>> \o IntStr(SyncFnIndex(syncFns, lastCall.args[2].fn))
                                \o CapturesText(lastCall.args[1])

(***************************************************************************)
(* C18: encoding a QRL that is not sync and for which neither the QRL, the *)
(* platform nor the resolver gives a chunk fails with 'Missing chunk' and  *)
(* gives no text, in every build mode; a sync QRL never asks the resolver  *)
(* and is encoded with an empty chunk and its closure-table index as the   *)
(* symbol.                                                                 *)
(***************************************************************************)
C18_MissingChunk ==
  /\ NoChunkAnywhere => FailedMissingChunk
  /\ SyncEncoded

\* C18 as the code has it: the failure is that of a production build; a
\* development build encodes the QRL with the runtime chunk marker instead.
C18_MissingChunkInProduction ==
  /\ NoChunkAnywhere /\ ~lastCall.args[2].isDev => FailedMissingChunk
  /\ NoChunkAnywhere /\ lastCall.args[2].isDev
       => /\ lastCall.ret.ok
          /\ lastCall.ret.asked
          /\ lastCall.ret.text =
               QRL_RUNTIME_CHUNK \o <<35>>
                 \o (IF lastCall.args[2].platform # <<>> /\ ~lastCall.args[2].refSymbol
                     THEN lastCall.args[2].platform[1]
                     ELSE heap[lastCall.args[1]].chars)
                 \o CapturesText(lastCall.args[1])
  /\ SyncEncoded

\* a QRL with captures and no chunk anywhere was encoded in a development
\* build, after a production build had refused it
C18_Witness ==
  /\ NoChunkAnywhere
  /\ lastCall.args[2].isDev
  /\ heap[lastCall.args[1]].refs # <<>>
  /\ lastCall.ret.ok
  /\ Len(roots) = 2

(***************************************************************************)
(* The seen-state of an object: 0 unseen (no map entry), 1 seen once (the  *)
(* entry is MIN_SAFE_INTEGER), 2 rooted (the entry is a root id).          *)
(***************************************************************************)
SeenState(m, o) ==
  IF ~HasEntry(m, o) THEN 0 ELSE IF m[o] = MIN_SAFE_INTEGER THEN 1 ELSE 2
\* the objects the walker gives a seen-state: tracked and not a store proxy
Trackable(o) == (shouldTrackObj(o) \/ frameworkType(o)) /\ unwrapProxy(o) = o
\* this step is one iteration of the walker's loop
WalkerIteration == hist'.tick # hist.tick
Popped == Last(discoveredValues)

(***************************************************************************)
(* C19: during a walk the seen-state of every trackable object that is not *)
(* a store only moves forward: an unseen object becomes seen-once on its   *)
(* first visit, a seen-once object becomes rooted on its second visit, no  *)
(* object goes from rooted to seen-once or from any state to unseen, and a *)
(* rooted object (a declared root among them) keeps its id.                *)
(***************************************************************************)
C19_SeenStateForward ==
  [][/\ \A o \in 1..Len(heap) :
          /\ SeenState(map', o) >= SeenState(map, o)
          /\ IsRooted(map, o) => map'[o] = map[o]
     /\ WalkerIteration /\ Trackable(Popped) /\ Popped # rootObj
          => /\ SeenState(map, Popped) = 0 => SeenState(map', Popped) = 1
             /\ SeenState(map, Popped) = 1
                  => /\ SeenState(map', Popped) = 2
                     /\ map'[Popped] = Len(roots)
                     /\ roots' = Append(roots, Popped)
     /\ WalkerIteration /\ Trackable(Popped) /\ Popped = rootObj
          => /\ IsRooted(map, Popped)
             /\ map'[Popped] = map[Popped]]_vars

\* the walks are over; an object that is not a declared root was visited
\* twice and is rooted, and every declared root has the id it was given
C19_Witness ==
  /\ pc = "drained"
  /\ \E o \in hist.scanned :
       o \notin hist.declared /\ Trackable(o) /\ IsRooted(map, o)
  /\ hist.declared # {}
  /\ \A r \in hist.declared : IsObj(r) => map[r] = hist.firstId[r]

(***************************************************************************)
(* C20: in one walk the contents of an object that is neither the root of  *)
(* the walk nor a store are pushed at most once, on its first visit; a     *)
(* later visit pushes nothing and at most promotes the object; the root of *)
(* the walk has its contents pushed when it is popped although it has a    *)
(* root id.                                                                *)
(***************************************************************************)
C20_ContentsPushedOnce ==
  [][WalkerIteration /\ Trackable(Popped)
       => /\ Popped # rootObj /\ HasEntry(map, Popped)
               => /\ discoveredValues' = Front(discoveredValues)
                  /\ hist'.scanned = hist.scanned
                  /\ heap' = heap
          /\ Popped # rootObj /\ ~HasEntry(map, Popped)
               => /\ Popped \notin hist.scanned
                  /\ Popped \in hist'.scanned
                  /\ roots' = roots \/ KindOf(Popped) \in {"set", "map"}
          /\ Popped # rootObj /\ Popped \in hist.scanned
               => discoveredValues' = Front(discoveredValues)
          /\ Popped = rootObj
               => /\ IsRooted(map, Popped)
                  /\ Popped \in hist'.scanned
                  /\ pc' = "error" \/
                       discoveredValues' = Front(discoveredValues)
                                             \o ScanPushes(Popped, Len(heap) + 1)]_vars

\* an object with contents that is not a declared root was scanned and then
\* promoted, and the walker is about to visit it once more
C20_Witness ==
  /\ pc = "walk"
  /\ discoveredValues # <<>>
  /\ Popped \notin hist.declared
  /\ Popped \in hist.scanned
  /\ Trackable(Popped)
  /\ IsRooted(map, Popped)
  /\ heap[Popped].refs # <<>>
  /\ rootObj \in hist.scanned

(***************************************************************************)
(* The references a compound object holds, by kind, as the data model has  *)
(* them: elements, contents, own properties, a signal's value and the host *)
(* of each subscriber, a derived signal's $args$, a JSX node's type, props *)
(* and children, a QRL's $captureRef$, a props container's two maps.       *)
(***************************************************************************)
CompoundKinds ==
  {"array", "set", "map", "literal", "signal", "derived", "jsx", "qrl", "props"}
Constituents(o) ==
  IF KindOf(o) = "signal"
  THEN <<heap[o].refs[1]>> \o
       [k \in 1..Len(heap[o].subs) |-> Elem(heap[o].subs[k], SubscriptionProp_HOST + 1)]
  ELSE heap[o].refs
\* what this iteration pushed
PushedNow ==
  SubSeq(discoveredValues', Len(discoveredValues), Len(discoveredValues'))
\* this iteration scans Popped for the first time
FirstScan ==
  /\ WalkerIteration
  /\ Trackable(Popped)
  /\ KindOf(Popped) \in CompoundKinds
  /\ Popped \notin hist.scanned
  /\ ~HasEntry(map, Popped) \/ Popped = rootObj

(***************************************************************************)
(* C21: when the walker scans a compound object for the first time it      *)
(* pushes every reference the object holds onto the worklist: array        *)
(* elements, set and map contents, own properties, a signal's value and    *)
(* subscriber hosts, a derived signal's captured values, a JSX node's      *)
(* parts, a QRL's captured values, a props container's maps.               *)
(***************************************************************************)
C21_ScanPushesConstituents ==
  [][FirstScan
       => \A k \in 1..Len(Constituents(Popped)) :
            \E j \in 1..Len(PushedNow) : PushedNow[j] = Constituents(Popped)[k]]_vars

\* the same for the kinds other than a QRL and a derived signal
C21_ExceptCaptures ==
  [][FirstScan /\ KindOf(Popped) \notin {"qrl", "derived"}
       => \A k \in 1..Len(Constituents(Popped)) :
            \E j \in 1..Len(PushedNow) : PushedNow[j] = Constituents(Popped)[k]]_vars

(***************************************************************************)
(* The outstanding list and the settlement callbacks.                      *)
(***************************************************************************)
Outstanding == {promises[k] : k \in 1..Len(promises)}
\* this step is the settlement callback of the promise at the head of the
\* microtask queue
CallbackRuns ==
  /\ pc = "await"
  /\ jobs # <<>>
  /\ Head(jobs).t = "cb"
  /\ rootIdOf' # rootIdOf
\* the callback took its own promise out of the list and nothing else
RemovesOwnEntry ==
  promises' = SelectSeq(promises, LAMBDA q : q # Head(jobs).p)
\* the walker registers a promise it has not registered before
RegistersOnce ==
  WalkerIteration /\ promises' # promises
    => /\ Popped \notin hist.registered
       /\ Popped \notin Outstanding
       /\ promises' = Append(promises, Popped)

(***************************************************************************)
(* C22: for any order in which the discovered promises settle, after each  *)
(* settlement callback the outstanding list holds exactly the discovered   *)
(* promises that have not yet settled; each callback removes its own entry *)
(* and no other, and each promise is registered at most once per walk.     *)
(***************************************************************************)
C22_OutstandingAreUnsettled ==
  [][/\ CallbackRuns
          => /\ RemovesOwnEntry
             /\ Outstanding' = {q \in hist.registered : settled'[q] = "pending"}
     /\ RegistersOnce]_vars

\* C22 with "not yet settled" read as "whose settlement callback has not
\* run yet": a promise that has settled stays in the list until the
\* microtask queue reaches its callback.
C22_OutstandingAwaitCallback ==
  [][/\ CallbackRuns
          => /\ RemovesOwnEntry
             /\ Head(jobs).p \in Outstanding
             /\ Outstanding' = {q \in hist.registered : ~HasEntry(rootIdOf', q)}
             /\ Len(promises') = Cardinality(Outstanding')
     /\ RegistersOnce]_vars

\* one callback has run while another discovered promise, already settled,
\* is still in the list
C22_Witness ==
  /\ pc = "await"
  /\ \E p \in hist.registered : HasEntry(rootIdOf, p) /\ p \notin Outstanding
  /\ \E q \in Outstanding : settled[q] # "pending"

(***************************************************************************)
(* The finished document.  An entry is nested when its container is not    *)
(* the roots array (node 1); it stands for an object when its source value *)
(* is an object that the encoder serializes.                               *)
(***************************************************************************)
IsBackReference(cell) == IsTagged(cell) /\ cell.s[1] = REFERENCE_VALUE
ObjectEntries ==
  {e \in Entries :
     /\ nodes[e[1]].kind = "array" \/ nodes[e[1]].keys[e[2]] # 0
     /\ TypeofObject(SrcOf(e[1], e[2]))
     /\ KindOf(SrcOf(e[1], e[2])) \notin {"noserialize", "store"}}
RootedObjects ==
  {o \in 1..Len(heap) : TypeofObject(o) /\ IsRooted(map, o)
                          /\ KindOf(o) \notin {"noserialize", "store"}}

(***************************************************************************)
(* C23: in the encoded document every object that has a root id is written *)
(* in full exactly once, at its own slot of the roots array, and at every  *)
(* nested occurrence it is written as the back-reference tag followed by   *)
(* its root id; an object without a root id is written inline.             *)
(***************************************************************************)
C23_RootedWrittenOnce ==
  pc = "encoded" =>
    /\ Len(nodes[1].f) = Len(roots)
    /\ \A o \in RootedObjects :
         /\ SrcOf(1, map[o] + 1) = o
         /\ ~IsBackReference(nodes[1].f[map[o] + 1])
         /\ KindOf(o) \in {"literal", "array"} => Cardinality(Copies(o)) = 1
    /\ \A e \in ObjectEntries :
         IF e[1] # 1 /\ IsRooted(map, SrcOf(e[1], e[2]))
         THEN nodes[e[1]].f[e[2]] =
                Tagged(REFERENCE_VALUE, IntStr(map[SrcOf(e[1], e[2])]))
         ELSE ~IsBackReference(nodes[e[1]].f[e[2]])

(***************************************************************************)
(* The root ids a written string names, read the way the decoder reads     *)
(* them: the number after a back-reference or store tag, the ids inflate   *)
(* resolves for the other tags, and the ids of the subscriber segments     *)
(* written in front of a store-proxied object.                             *)
(***************************************************************************)
CellIds(cell) ==
  IF ~IsTagged(cell) THEN <<>>
  ELSE IF cell.s[1] \in {REFERENCE_VALUE, Store_VALUE} THEN <<restInt(cell.s, 1)>>
  ELSE InflateIds(cell.s)
MetaIds(cell) == SubIds(SelectSeq(Split(cell.s, 59), LAMBDA seg : seg # <<>>))
Cells == {e \in (1..Len(nodes)) \X (1..8) : e[2] <= Len(nodes[e[1]].f)}
OutputIds ==
  UNION {{CellIds(nodes[e[1]].f[e[2]])[x] : x \in 1..Len(CellIds(nodes[e[1]].f[e[2]]))} :
           e \in Cells} \cup
  UNION {{MetaIds(nodes[n].meta[1])[x] : x \in 1..Len(MetaIds(nodes[n].meta[1]))} :
           n \in {k \in 1..Len(nodes) : nodes[k].meta # <<>>}}

QrlText == <<99, 35, 115>>                                  \* c#s
QrlCapturing == QrlText \o <<91, 51, 93>>                   \* c#s[3]
Sp(toks) == Join(toks, 32)
TagPayloads ==
  {<<UNDEFINED_VALUE, <<>>>>, <<REFERENCE_VALUE, <<51>>>>, <<REFERENCE_VALUE, <<53>>>>,
   <<URL_VALUE, <<104, 58>>>>, <<Date_VALUE, <<49>>>>, <<Regex_VALUE, <<47, 97, 47>>>>,
   <<String_VALUE, <<120>>>>, <<String_VALUE, <<String_VALUE, 120>>>>,
   <<VNode_VALUE, <<>>>>, <<VNode_VALUE, <<49, 65>>>>,
   <<NotFinite_VALUE, <<>>>>, <<NotFinite_VALUE, <<43>>>>, <<NotFinite_VALUE, <<45>>>>,
   <<BigInt_VALUE, <<55>>>>, <<URLSearchParams_VALUE, <<97>>>>,
   <<Error_VALUE, <<51>>>>, <<QRL_VALUE, QrlCapturing>>, <<QRL_VALUE, QrlText>>,
   <<Task_VALUE, Sp(<<<<48>>, <<48>>, <<54>>, QrlCapturing, <<52>>>>)>>,
   <<Task_VALUE, Sp(<<<<48>>, <<48>>, <<51>>, QrlText>>)>>,
   <<Resource_VALUE, <<120>>>>,
   <<Component_VALUE, QrlCapturing>>,
   <<DerivedSignal_VALUE, Sp(<<<<48>>, <<54>>, <<52>>>>)>>,
   <<Signal_VALUE, <<52>>>>,
   <<SignalWrapper_VALUE, Sp(<<<<54>>, <<112>>>>)>>,
   <<Store_VALUE, <<51>>>>,
   <<FormData_VALUE, <<49>>>>,
   <<JSXNode_VALUE, Sp(<<<<100>>, <<54>>, <<51>>, <<50>>, <<48>>, <<107>>>>)>>,
   <<JSXNode_VALUE, Sp(<<<<51>>, <<51>>, <<51>>, <<50>>, <<48>>, <<>>>>)>>,
   <<Set_VALUE, <<50>>>>, <<Map_VALUE, <<50>>>>,
   <<Promise_VALUE, <<52>>>>,
   <<Uint8Array_VALUE, <<65, 81, 73>>>>,
   <<PropsProxy_VALUE, Sp(<<<<54>>, <<51>>>>)>>}
    \cup {<<tag, <<120>>>> : tag \in UnusedTags}

TagDocument(kind, tag, payload) ==
  <<RootsOf(<<RefCell(2), RefCell(3), RefCell(4), RefCell(6), NumCell(7),
              Tagged(String_VALUE, <<String_VALUE, 120>>),
              Tagged(PropsProxy_VALUE, <<51, 32, 50>>)>>),
    [Node(kind, 0) EXCEPT !.f = <<Tagged(tag, payload)>>,
                          !.keys = IF kind = "object" THEN <<1>> ELSE <<>>],
    [Node("array", 0) EXCEPT !.f = <<RefCell(5)>>],
    [Node("array", 0) EXCEPT !.f = <<NumCell(1), NumCell(2)>>],
    [Node("array", 0) EXCEPT !.f = <<StrCell(<<107>>), StrCell(<<118>>)>>],
    [Node("object", 0) EXCEPT !.f = <<NumCell(7)>>, !.keys = <<1>>]>>
TagDocuments ==
  {TagDocument(kind, p[1], p[2]) : kind \in {"array", "object"}, p \in TagPayloads}

InitTags ==
  /\ nodes \in TagDocuments
  /\ pc = "decode"
  /\ known = {1}
  /\ heap = <<>>
  /\ decl = <<>>
  /\ map = <<>>
  /\ roots = <<>>
  /\ rootIdx = 0
  /\ objRootsLength = 0
  /\ rootObj = 0
  /\ discoveredValues = <<>>
  /\ promises = <<>>
  /\ rootIdOf = <<>>
  /\ settled = <<>>
  /\ reactions = <<>>
  /\ jobs = <<>>
  /\ awaiting = 0
  /\ hist = HistInit
  /\ syncFns = <<>>
  /\ stack = <<>>
  /\ lastRead = <<>>
  /\ lastCall = NoCall
TagsNext ==
  \/ \E n \in 1..Len(nodes) : \E i \in 1..Len(nodes[n].f) : Read(n, i)
  \/ \E k \in 1..Len(nodes) : Inspect(k)
SpecTags == InitTags /\ [][TagsNext]_vars

\* the codes writeValue and writeObjectValue write (lines 837-1018)
EmittedTags ==
  {UNDEFINED_VALUE, REFERENCE_VALUE, URL_VALUE, Date_VALUE, Regex_VALUE, String_VALUE,
   VNode_VALUE, NotFinite_VALUE, BigInt_VALUE, URLSearchParams_VALUE, Error_VALUE,
   QRL_VALUE, Task_VALUE, Component_VALUE, DerivedSignal_VALUE, Signal_VALUE,
   SignalWrapper_VALUE, Store_VALUE, FormData_VALUE, JSXNode_VALUE, Set_VALUE,
   Map_VALUE, Promise_VALUE, Uint8Array_VALUE, PropsProxy_VALUE}

\* this step is a read of a field that holds a payload, and the code of it
ReadsPayload ==
  /\ pc = "decode"
  /\ lastRead' # <<>>
  /\ (lastRead' # lastRead \/ nodes' # nodes \/ pc' # pc)
  /\ IsTagged(nodes[lastRead'[1]].f[lastRead'[2]])
TagRead == nodes[lastRead'[1]].f[lastRead'[2]].s[1]
\* the read ran fn for the field it read
RanFor(fn) == <<fn, lastRead'[1], lastRead'[2]>> \in Range(lastRead'[4])

(***************************************************************************)
(* C25: for every code the encoder can write (undefined, back-reference,   *)
(* URL, date, regex, string escape, tree-node id, not-finite, bigint,      *)
(* URL search params, error, QRL, task, component, derived signal, signal, *)
(* signal wrapper, store, form data, JSX node, set, map, promise, byte     *)
(* array, props container) a read of a field holding a payload with that   *)
(* code raises neither allocate's 'unknown allocate type' or 'Not          *)
(* implemented' error nor inflate's 'Not implemented' error.               *)
(***************************************************************************)
C25_EmittedTagsDecode ==
  [][(ReadsPayload /\ TagRead \in EmittedTags)
       => (pc' = "decode" /\ lastRead'[5] = "")]_vars

\* a task held by an object literal has been read and inflated with its
\* element, one captured value and its state
C25_Witness ==
  /\ lastRead # <<>>
  /\ lastRead[1] = 2
  /\ pc = "decode"
  /\ nodes[2].kind = "object"
  /\ lastRead[3].t = "o"
  /\ nodes[lastRead[3].n].kind = "task"
  /\ Len(nodes[lastRead[3].n].f) = 3

(***************************************************************************)
(* C26: for every code t in 0x00..0x1f, a read that materializes the value *)
(* of a payload with code t calls inflate for it exactly when t >= 0x0f    *)
(* (Error_VALUE); a code t >= 0x0f for which the read makes a shell (by    *)
(* allocate or by the store special case) has a case in inflate; a code    *)
(* below 0x0f is decoded in a single phase, without inflate.               *)
(***************************************************************************)
C26_InflateFromErrorTagUp ==
  [][ReadsPayload =>
       /\ TagRead \in 0..(LAST_VALUE - 1)
       /\ pc' = "decode" => (RanFor("inflate") <=> TagRead >= Error_VALUE)
       /\ TagRead >= Error_VALUE => lastRead'[5] # "inflate"
       /\ TagRead < Error_VALUE => ~RanFor("inflate")]_vars

\* an error (the lowest two-phase code) has been read and inflated
C26_Witness ==
  /\ lastRead # <<>>
  /\ pc = "decode"
  /\ lastRead[3].t = "o"
  /\ nodes[lastRead[3].n].kind = "error"
  /\ nodes[lastRead[3].n].f = <<NumCell(7)>>
  /\ <<"inflate", lastRead[1], lastRead[2]>> \in Range(lastRead[4])

\* what container.$getObjectById$(id) returns for the number after the code
\* of the payload read
Resolved ==
  LET slot == Slot(nodes, parseInt(Tail(nodes[lastRead'[1]].f[lastRead'[2]].s)))
  IN  IF slot.n = 0 THEN Undef ELSE Get(nodes, slot.n, slot.i).ret
Neither == ~RanFor("allocate") /\ ~RanFor("inflate")

(***************************************************************************)
(* C27: of all codes, the back-reference code is the only one whose value  *)
(* a read materializes without calling allocate or inflate: the value is   *)
(* what the container's $getObjectById$ returns for the number after the   *)
(* code, and it is written back into the field.                            *)
(***************************************************************************)
C27_OnlyBackReference ==
  [][(ReadsPayload /\ pc' = "decode") =>
       /\ Neither <=> TagRead = REFERENCE_VALUE
       /\ TagRead = REFERENCE_VALUE =>
            /\ lastRead'[3] = Resolved
            /\ nodes'[lastRead'[1]].f[lastRead'[2]] = lastRead'[3]]_vars

(***************************************************************************)
(* C27, as the code has it: the back-reference code and the tree-node code *)
(* are the only ones whose value a read materializes without calling       *)
(* allocate or inflate.  A back-reference yields what $getObjectById$      *)
(* returns for the number after the code; the value is written back into   *)
(* the field unless it is a string that is empty or starts with a          *)
(* character below LAST_VALUE, which is returned and not stored.           *)
(***************************************************************************)
C27_BackReferenceAndVNode ==
  [][(ReadsPayload /\ pc' = "decode") =>
       /\ Neither <=> TagRead \in {REFERENCE_VALUE, VNode_VALUE}
       /\ TagRead = REFERENCE_VALUE =>
            /\ lastRead'[3] = Resolved
            /\ nodes'[lastRead'[1]].f[lastRead'[2]] =
                 IF Cacheable(lastRead'[3]) THEN lastRead'[3]
                 ELSE nodes[lastRead'[1]].f[lastRead'[2]]]_vars

\* a back-reference to the object literal at root 3 has been read from the
\* holder and the holder's field now holds the object
C27_Witness ==
  /\ lastRead # <<>>
  /\ pc = "decode"
  /\ lastRead[1] = 2
  /\ lastRead[4] = <<>>
  /\ lastRead[3] = RefCell(6)
  /\ nodes[2].f[1] = RefCell(6)
  /\ nodes[1].f[4] = RefCell(6)

\* the tokens a call of inflate on data reads when nothing else moves the
\* cursor: the first k of them
TokensOf(data, k) ==
  LET semiIdx == CharIndexOf(data, 59, 0)
  IN  IF data[1] = Signal_VALUE
      THEN SubSeq(<<Substring(data, 1, IF semiIdx = -1 THEN Len(data) ELSE semiIdx),
                    Substring(data, semiIdx + 1, Len(data))>>, 1, k)
      ELSE RestTokens(data, 1, k)
InflateCalls == IF lastRead = <<>> THEN <<>> ELSE lastRead[6]

(***************************************************************************)
(* C28: a call of inflate that returns normally leaves the shared cursor   *)
(* (rest and restIdx) and restStack exactly as they were before the call,  *)
(* so a call of inflate entered while an outer call is parsing, through a  *)
(* $getObjectById$ of the outer call, does not change the tokens the outer *)
(* call reads afterwards: every call reads the tokens and asks for the ids *)
(* of its own payload.                                                     *)
(***************************************************************************)
C28_CursorRestored ==
  \A j \in 1..Len(InflateCalls) :
    LET call == InflateCalls[j]
    IN  /\ call.now = call.saved
        /\ call.toks = TokensOf(call.data, Len(call.toks))
        /\ call.ids = InflateIds(call.data)

\* a signal wrapper's inflate has asked for root 6, which was inflated
\* inside that call, and has read its property name afterwards
C28_Witness ==
  \E j \in 1..Len(InflateCalls) :
    /\ InflateCalls[j].data = Tagged(SignalWrapper_VALUE, <<54, 32, 112>>).s
    /\ InflateCalls[j].inner = 1
    /\ InflateCalls[j].toks = <<<<54>>, <<112>>>>
    /\ InflateCalls[j].saved = <<<<>>, 0, <<>>>>

(***************************************************************************)
(* restString (lines 274-293) called again and again on one payload, as    *)
(* the cases of inflate do.  The tokens of the payload are the strings of  *)
(* the heap; inflate has set rest to the payload and restIdx to 1.         *)
(***************************************************************************)
TokenAlphabet == {97, 91, 93, 32}        \* a [ ] and the space
\* the depth of brackets after each character of a text
RECURSIVE Depths(_)
Depths(text) ==
  IF text = <<>> THEN <<>>
  ELSE LET d == Depths(Front(text))
           before == IF d = <<>> THEN 0 ELSE Last(d)
       IN  Append(d, IF Last(text) = 91 THEN before + 1
                     ELSE IF Last(text) = 93 THEN before - 1 ELSE before)
\* brackets are matched, and a space stands only inside brackets
IsToken(text) ==
  /\ \A j \in 1..Len(text) : Depths(text)[j] >= 0
  /\ text # <<>> => Last(Depths(text)) = 0
  /\ \A j \in 1..Len(text) : text[j] = 32 => Depths(text)[j] > 0
PayloadTokens ==
  {text \in UNION {[1..n -> TokenAlphabet] : n \in 0..MaxToken} : IsToken(text)}
PayloadScenarios ==
  {Scn([j \in 1..Len(toks) |-> Str(toks[j])], <<>>) :
     toks \in UNION {[1..n -> PayloadTokens] : n \in 1..MaxTokens}}
TokensOfHeap == [j \in 1..Len(heap) |-> heap[j].chars]
\* the payload: a code, then the tokens joined by single spaces
PayloadOfHeap == <<Set_VALUE>> \o Join(TokensOfHeap, 32)

CallRestString ==
  /\ pc = "setup"
  /\ LET rest == PayloadOfHeap
         restIdx == IF lastCall.op = "restString" THEN lastCall.ret.restIdx ELSE 1
         nth == IF lastCall.op = "restString" THEN lastCall.args[3] + 1 ELSE 1
     IN  /\ nth <= Len(heap) + 2
         /\ lastCall' = [Called("restString", <<rest, restIdx, nth>>,
                                [token |-> restString(rest, restIdx),
                                 restIdx |-> RestScan(rest, restIdx, 0)])
                           EXCEPT !.prev = <<>>]
  /\ UNCHANGED <<heap, decl, pc, map, roots, rootIdx, objRootsLength, rootObj,
                 discoveredValues, promises, rootIdOf, settled, reactions, jobs,
                 awaiting, hist, syncFns, nodes, stack, known, lastRead>>
InitRest == InitOf(PayloadScenarios)
RestNext == CallRestString
SpecRest == InitRest /\ [][RestNext]_vars

(***************************************************************************)
(* C29: for a payload made of tokens joined by single spaces, where a      *)
(* token holds spaces only inside matched '[' ']' pairs, the calls of      *)
(* restString return the tokens one by one in order, each without its      *)
(* separating space; once the payload is exhausted every further call      *)
(* returns the empty string and the cursor stays past the end.             *)
(***************************************************************************)
C29_TokensInOrder ==
  lastCall.op = "restString" =>
    LET nth == lastCall.args[3]
    IN  /\ lastCall.ret.token = IF nth <= Len(heap) THEN heap[nth].chars ELSE <<>>
        /\ nth >= Len(heap) => lastCall.ret.restIdx = Len(lastCall.args[1]) + 1
        /\ nth > Len(heap) => lastCall.args[2] = Len(lastCall.args[1]) + 1

\* the second token, with a space inside brackets, has been returned
C29_Witness ==
  /\ lastCall.op = "restString"
  /\ lastCall.args[3] = 2
  /\ Len(heap) = 2
  /\ heap[1].chars = <<97>>
  /\ lastCall.ret.token = <<91, 32, 93>>

(***************************************************************************)
(* C30: encoding then decoding a number that is not finite returns the     *)
(* same number: NaN is written as the not-finite code alone, +Infinity as  *)
(* the code followed by '+', -Infinity as the code followed by '-', and    *)
(* allocate maps the empty suffix to NaN, '-' to -Infinity and any other   *)
(* suffix to +Infinity; every finite number is written untagged.           *)
(***************************************************************************)
IsNumber(v) == v <= 0 \/ KindOf(v) \in NotFiniteKinds
WrittenFor(v) ==
  IF v <= 0 THEN NumCell(-v)
  ELSE IF KindOf(v) = "NaN" THEN StrCell(<<NotFinite_VALUE>>)
  ELSE IF KindOf(v) = "Infinity" THEN StrCell(<<NotFinite_VALUE, 43>>)
  ELSE StrCell(<<NotFinite_VALUE, 45>>)
NumberOf(v) ==
  IF v <= 0 THEN NumCell(-v)
  ELSE IF KindOf(v) = "NaN" THEN NaNCell
  ELSE IF KindOf(v) = "Infinity" THEN InfCell(1)
  ELSE InfCell(-1)
NotFiniteSuffixes == {<<>>, <<43>>, <<45>>, <<120>>, <<45, 45>>, <<43, 45>>, <<32>>}
C30_NotFiniteRoundTrip ==
  /\ pc \in {"encoded", "decode"} =>
       \A e \in Entries :
         IsNumber(SrcOf(e[1], e[2]))
           => nodes[e[1]].f[e[2]] \in {WrittenFor(SrcOf(e[1], e[2])),
                                       NumberOf(SrcOf(e[1], e[2]))}
  /\ pc = "encoded" =>
       \A e \in Entries :
         IsNumber(SrcOf(e[1], e[2]))
           => nodes[e[1]].f[e[2]] = WrittenFor(SrcOf(e[1], e[2]))
  /\ (pc = "decode" /\ lastRead # <<>> /\ IsNumber(SrcOf(lastRead[1], lastRead[2])))
       => lastRead[3] = NumberOf(SrcOf(lastRead[1], lastRead[2]))
  /\ \A suffix \in NotFiniteSuffixes :
       allocate(nodes, <<NotFinite_VALUE>> \o suffix) =
         Ret(nodes, IF suffix = <<>> THEN NaNCell
                    ELSE IF suffix = <<45>> THEN InfCell(-1) ELSE InfCell(1))

\* -Infinity held by an object literal has been written with '-' and read back
C30_Witness ==
  /\ pc = "decode"
  /\ lastRead # <<>>
  /\ nodes[lastRead[1]].kind = "object"
  /\ KindOf(SrcOf(lastRead[1], lastRead[2])) = "-Infinity"
  /\ lastRead[3] = InfCell(-1)
  /\ <<"allocate", lastRead[1], lastRead[2]>> \in Range(lastRead[4])

(***************************************************************************)
(* Byte arrays.  writeObjectValue (lines 1008-1014) writes a Uint8Array as *)
(* its code followed by btoa of its bytes without the trailing '='; the    *)
(* reader allocates the array from the length of that text (lines 474-479) *)
(* and inflate fills it from atob (lines 395-401).  A byte array is a heap *)
(* object of kind "bytes" whose refs are its bytes.                        *)
(***************************************************************************)
ByteAlphabet == {0, 65, 251, 255}
ByteArrays == UNION {[1..n -> ByteAlphabet] : n \in 0..MaxBytes}
ByteScenarios ==
  {Scn(<<Obj("bytes", [j \in 1..Len(b) |-> -b[j]])>>, <<1>>) : b \in ByteArrays}
BytesOf(v) == [j \in 1..Len(heap[v].refs) |-> -heap[v].refs[j]]

\* btoa: four characters for every three bytes, the last group padded with '='
Base64Char(six) ==
  IF six < 26 THEN six + 65
  ELSE IF six < 52 THEN six + 71
  ELSE IF six < 62 THEN six - 4
  ELSE IF six = 62 THEN 43
  ELSE 47
btoa(bytes) ==
  LET n == Len(bytes)
      byte(j) == IF j <= n THEN bytes[j] ELSE 0
      char(j) ==
        LET g == 3 * ((j - 1) \div 4) IN
        IF (j - 1) % 4 = 0 THEN Base64Char(byte(g + 1) \div 4)
        ELSE IF (j - 1) % 4 = 1
        THEN Base64Char((byte(g + 1) % 4) * 16 + byte(g + 2) \div 16)
        ELSE IF (j - 1) % 4 = 2
        THEN IF g + 2 > n THEN 61
             ELSE Base64Char((byte(g + 2) % 16) * 4 + byte(g + 3) \div 64)
        ELSE IF g + 3 > n THEN 61 ELSE Base64Char(byte(g + 3) % 64)
  IN  [j \in 1..(4 * ((n + 2) \div 3)) |-> char(j)]

\* replace(/=+$/, '') of line 1012
StripPadding_Keep(text) == text
RECURSIVE StripPadding(_)
StripPadding(text) ==
  IF text # <<>> /\ Last(text) = 61 THEN StripPadding(Front(text)) ELSE text

\* lines 1008-1014: the byte array is written as the only root
WriteBytes ==
  /\ pc = "setup"
  /\ heap[1].kind = "bytes"
  /\ LET out == StripPadding(btoa(BytesOf(1)))
     IN  /\ nodes' = <<[Node("array", 0) EXCEPT !.f = <<Tagged(Uint8Array_VALUE, out)>>]>>
         /\ lastCall' = Called("writeObjectValue", <<BytesOf(1)>>, out)
  /\ pc' = "encoded"
  /\ UNCHANGED <<heap, decl, map, roots, rootIdx, objRootsLength, rootObj,
                 discoveredValues, promises, rootIdOf, settled, reactions, jobs,
                 awaiting, hist, syncFns, stack, known, lastRead>>
InitBytes == InitOf(ByteScenarios)
BytesNext ==
  \/ WriteBytes
  \/ BeginDecode
  \/ \E n \in 1..Len(nodes) : \E i \in 1..Len(nodes[n].f) : Read(n, i)
SpecBytes == InitBytes /\ [][BytesNext]_vars

(***************************************************************************)
(* C31: for every byte array of length n >= 0, the shell that allocate     *)
(* creates from its encoding (base64 text without trailing '=', of length  *)
(* L) has exactly n bytes: floor(L/4)*3 + (L mod 4 = 0 ? 0 : L mod 4 - 1)  *)
(* equals n.                                                               *)
(***************************************************************************)
C31_ShellHasLength ==
  lastCall.op = "writeObjectValue" =>
    LET bytes == lastCall.args[1]
        L == Len(lastCall.ret)
        a == allocate(<<>>, <<Uint8Array_VALUE>> \o lastCall.ret)
    IN  /\ (L \div 4) * 3 + (IF L % 4 = 0 THEN 0 ELSE (L % 4) - 1) = Len(bytes)
        /\ ~a.err
        /\ a.N[a.val.n].kind = "bytes"
        /\ Len(a.N[a.val.n].f) = Len(bytes)
        /\ (lastRead # <<>> /\ ~IsTagged(lastRead[3]))
             => Len(nodes[lastRead[3].n].f) = Len(bytes)

\* the two bytes 251, 255 were written as "+/8" and read back into an array
\* of two bytes
C31_Witness ==
  /\ lastCall.op = "writeObjectValue"
  /\ lastCall.args[1] = <<251, 255>>
  /\ lastCall.ret = <<43, 47, 56>>
  /\ lastRead # <<>>
  /\ <<"allocate", 1, 1>> \in Range(lastRead[4])
  /\ nodes[lastRead[3].n].f = <<NumCell(251), NumCell(255)>>

(***************************************************************************)
(* Properties objects with derived signals, read through the wrapper in    *)
(* any order.  Root 0 is the properties object; root 1 is a number or an   *)
(* error whose own properties are those of root 0.  A derived signal       *)
(* captures nothing or root 1.                                             *)
(***************************************************************************)
PropCells ==
  {NumCell(7), Tagged(DerivedSignal_VALUE, <<48>>),
   Tagged(DerivedSignal_VALUE, <<48, 32, 49>>)}
PropsDocuments ==
  {<<RootsOf(<<RefCell(2), other>>),
     [Node("object", 0) EXCEPT !.f = props, !.keys = [j \in 1..Len(props) |-> j]]>> :
     other \in {NumCell(7), Tagged(Error_VALUE, <<48>>)},
     props \in UNION {[1..n -> PropCells] : n \in 1..MaxProps}}
InitProps ==
  /\ nodes \in PropsDocuments
  /\ pc = "decode"
  /\ known = {1}
  /\ heap = <<>>
  /\ decl = <<>>
  /\ map = <<>>
  /\ roots = <<>>
  /\ rootIdx = 0
  /\ objRootsLength = 0
  /\ rootObj = 0
  /\ discoveredValues = <<>>
  /\ promises = <<>>
  /\ rootIdOf = <<>>
  /\ settled = <<>>
  /\ reactions = <<>>
  /\ jobs = <<>>
  /\ awaiting = 0
  /\ hist = HistInit
  /\ syncFns = <<>>
  /\ stack = <<>>
  /\ lastRead = <<>>
  /\ lastCall = NoCall
PropsNext == \E n \in 1..Len(nodes) : \E i \in 1..Len(nodes[n].f) : Read(n, i)
SpecProps == InitProps /\ [][PropsNext]_vars

IsDerivedTag(cell) ==
  cell.t = "s" /\ Len(cell.s) >= 1 /\ cell.s[1] = DerivedSignal_VALUE
Accessors(n) == {j \in 1..Len(nodes[n].f) : nodes[n].f[j].t = "g"}
PropsObjects == {n \in 1..Len(nodes) : nodes[n].kind = "object"}

(***************************************************************************)
(* C32: on a plain (non-array) properties container the upgrade of         *)
(* derived-signal fields runs at most once over any sequence of field      *)
(* reads: the first read of a derived-signal-tagged field turns every own  *)
(* field holding a derived-signal tag into a read-only computed accessor   *)
(* and records the signals in the container's const-props side map, and no *)
(* later read of any field of that container allocates or inflates a       *)
(* derived signal again.                                                   *)
(***************************************************************************)
C32_UpgradedOnce ==
  /\ [](\A n \in PropsObjects :
          IF nodes[n].st = "upgraded"
          THEN /\ \A j \in 1..Len(nodes[n].f) : ~IsDerivedTag(nodes[n].f[j])
               /\ Range(nodes[n].constProps) =
                    {<<j, nodes[n].f[j].n>> : j \in Accessors(n)}
               /\ Len(nodes[n].constProps) = Cardinality(Accessors(n))
          ELSE Accessors(n) = {} /\ nodes[n].constProps = <<>>)
  /\ [][\A n \in PropsObjects :
          nodes[n].st = "upgraded" =>
            /\ nodes'[n].f = nodes[n].f
            /\ nodes'[n].constProps = nodes[n].constProps
            /\ \A e \in Range(lastRead'[4]) : e[2] # n]_vars

(***************************************************************************)
(* wrapDeserializerProxy and unwrapDeserializerProxy (lines 53-90) called  *)
(* directly.  nodes holds the objects: an object literal, an array, a URL  *)
(* and a tree node at the start, then also the wrappers (kind "proxy",     *)
(* whose only field is the target).  map is deserializedProxyMap.          *)
(***************************************************************************)
WrapObjects == <<Node("object", 0), Node("array", 0), Node("url", 0), Node("vnode", 0)>>
WrapValues == {RefCell(k) : k \in 1..Len(nodes)} \cup {NumCell(7), StrCell(<<120>>), Undef}

\* lines 1268-1275: the prototype is Object.prototype or Array.prototype; a
\* proxy has the prototype of its target and a tree node is an array
PrototypeOf(N, k) == IF N[k].kind = "proxy" THEN N[N[k].f[1].n].kind ELSE N[k].kind
isObjectLiteral(N, value) == PrototypeOf(N, value.n) \in {"object", "array", "vnode"}
vnode_isVNode(N, value) == PrototypeOf(N, value.n) = "vnode"
\* lines 65-67: only the handler's has trap answers for SERIALIZER_PROXY_UNWRAP
isDeserializerProxy(N, value) == value.t = "o" /\ N[value.n].kind = "proxy"
\* lines 57-63: the get trap returns the target for SERIALIZER_PROXY_UNWRAP
unwrapDeserializerProxy(N, value) ==
  IF value.t = "o" /\ N[value.n].kind = "proxy" THEN N[value.n].f[1] ELSE value

\* lines 70-90
Wrapped(N, M, val) == [N |-> N, map |-> M, val |-> val]
NewProxy(N, M, value) ==
  Wrapped(Append(N, [Node("proxy", 0) EXCEPT !.f = <<value>>]),
          Put(M, value.n, Len(N) + 1), RefCell(Len(N) + 1))
wrapDeserializerProxy_NoMap(N, M, value) ==
  IF value.t = "o" /\ isObjectLiteral(N, value) /\ ~vnode_isVNode(N, value)
       /\ ~isDeserializerProxy(N, value) /\ Len(N) < 2 * Len(WrapObjects)
  THEN NewProxy(N, M, value)
  ELSE Wrapped(N, M, value)
wrapDeserializerProxy(N, M, value) ==
  IF value.t = "o" /\ isObjectLiteral(N, value) /\ ~vnode_isVNode(N, value)
  THEN IF isDeserializerProxy(N, value) THEN Wrapped(N, M, value)
       ELSE IF HasEntry(M, value.n) THEN Wrapped(N, M, RefCell(M[value.n]))
       ELSE NewProxy(N, M, value)
  ELSE Wrapped(N, M, value)

Wrap(value) ==
  /\ pc = "setup"
  /\ LET r == wrapDeserializerProxy(nodes, map, value)
     IN  /\ nodes' = r.N
         /\ map' = r.map
         /\ lastCall' = Called("wrapDeserializerProxy", <<value>>, r.val)
  /\ UNCHANGED <<heap, decl, pc, roots, rootIdx, objRootsLength, rootObj,
                 discoveredValues, promises, rootIdOf, settled, reactions, jobs,
                 awaiting, hist, syncFns, stack, known, lastRead>>
Unwrap(value) ==
  /\ pc = "setup"
  /\ lastCall' = Called("unwrapDeserializerProxy", <<value>>,
                        unwrapDeserializerProxy(nodes, value))
  /\ UNCHANGED <<heap, decl, pc, map, roots, rootIdx, objRootsLength, rootObj,
                 discoveredValues, promises, rootIdOf, settled, reactions, jobs,
                 awaiting, hist, syncFns, nodes, stack, known, lastRead>>
InitWrap ==
  /\ nodes = WrapObjects
  /\ pc = "setup"
  /\ known = {}
  /\ heap = <<>>
  /\ decl = <<>>
  /\ map = <<>>
  /\ roots = <<>>
  /\ rootIdx = 0
  /\ objRootsLength = 0
  /\ rootObj = 0
  /\ discoveredValues = <<>>
  /\ promises = <<>>
  /\ rootIdOf = <<>>
  /\ settled = <<>>
  /\ reactions = <<>>
  /\ jobs = <<>>
  /\ awaiting = 0
  /\ hist = HistInit
  /\ syncFns = <<>>
  /\ stack = <<>>
  /\ lastRead = <<>>
  /\ lastCall = NoCall
WrapNext ==
  \/ \E value \in WrapValues : Wrap(value)
  \/ \E value \in WrapValues : Unwrap(value)
SpecWrap == InitWrap /\ [][WrapNext]_vars

Proxies == {k \in 1..Len(nodes) : nodes[k].kind = "proxy"}
Wrappable(value) == value.t = "o" /\ nodes[value.n].kind \in {"object", "array"}

(***************************************************************************)
(* C33: wrapDeserializerProxy is idempotent and identity-preserving:       *)
(* wrapping an already wrapped value returns that same wrapper, wrapping   *)
(* the same raw object literal or array any number of times returns the    *)
(* same wrapper, unwrapDeserializerProxy of a wrapper returns the raw      *)
(* object it was made from, and a value that is not an object literal or   *)
(* array (or is a tree node) is returned unwrapped.                        *)
(***************************************************************************)
C33_WrapIdempotent ==
  /\ \A p, q \in Proxies : nodes[p].f = nodes[q].f => p = q
  /\ \A p \in Proxies : Wrappable(nodes[p].f[1])
  /\ lastCall.op = "wrapDeserializerProxy" =>
       LET value == lastCall.args[1]
           ret == lastCall.ret
       IN  /\ isDeserializerProxy(nodes, value) => ret = value
           /\ Wrappable(value) =>
                /\ isDeserializerProxy(nodes, ret)
                /\ nodes[ret.n].f = <<value>>
                /\ wrapDeserializerProxy(nodes, map, value).val = ret
                /\ wrapDeserializerProxy(nodes, map, ret).val = ret
                /\ unwrapDeserializerProxy(nodes, ret) = value
           /\ (~Wrappable(value) /\ ~isDeserializerProxy(nodes, value)) => ret = value
  /\ lastCall.op = "unwrapDeserializerProxy" =>
       LET value == lastCall.args[1]
       IN  lastCall.ret = IF value.t = "o" /\ value.n \in Proxies
                          THEN nodes[value.n].f[1] ELSE value

\* the array has been wrapped twice in a row and the second call returned
\* the wrapper the first call made
C33_Witness ==
  /\ lastCall.op = "wrapDeserializerProxy"
  /\ lastCall.args = <<RefCell(2)>>
  /\ lastCall.prev.op = "wrapDeserializerProxy"
  /\ lastCall.prev.args = <<RefCell(2)>>
  /\ lastCall.prev.ret = lastCall.ret
  /\ lastCall.ret.n \in Proxies
  /\ Cardinality(Proxies) = 1

(***************************************************************************)
(* A reactive store read through its lazy wrapper.  Root 0 is the store,   *)
(* root 1 the store's target: an object whose properties are escaped       *)
(* strings, a plain string, a number or a tagged value.  The reader reads  *)
(* the properties through the store's wrapper and through the wrapper of   *)
(* the target, in any order.                                               *)
(***************************************************************************)
StoreCells ==
  {StrCell(<<String_VALUE, 120>>), StrCell(<<String_VALUE>>),
   StrCell(<<String_VALUE, String_VALUE, 120>>), StrCell(<<120>>), NumCell(7),
   Tagged(URL_VALUE, <<120>>)}
StoreDocuments ==
  {<<RootsOf(<<Tagged(Store_VALUE, <<49>>), RefCell(2)>>),
     [Node("object", 0) EXCEPT !.f = props, !.keys = <<1, 2>>]>> :
     props \in [1..2 -> StoreCells]}
\* a property read through the wrapper of the store proxy n
ReadStore(n, i) ==
  /\ pc = "decode"
  /\ n \in known
  /\ nodes[n].kind = "store"
  /\ i \in 1..Len(nodes[nodes[n].f[1].n].f)
  /\ LET r == Get(nodes, n, i)
     IN  /\ nodes' = r.N
         /\ pc' = IF r.err THEN "error" ELSE pc
         /\ lastRead' = <<n, i, r.ret, r.ev, r.why, r.cur>>
         /\ known' = known \cup NodesIn(<<r.ret>>)
  /\ UNCHANGED <<heap, decl, map, roots, rootIdx, objRootsLength, rootObj,
                 discoveredValues, promises, rootIdOf, settled, reactions, jobs,
                 awaiting, hist, syncFns, stack, lastCall>>
InitStore ==
  /\ nodes \in StoreDocuments
  /\ pc = "decode"
  /\ known = {1}
  /\ heap = <<>>
  /\ decl = <<>>
  /\ map = <<>>
  /\ roots = <<>>
  /\ rootIdx = 0
  /\ objRootsLength = 0
  /\ rootObj = 0
  /\ discoveredValues = <<>>
  /\ promises = <<>>
  /\ rootIdOf = <<>>
  /\ settled = <<>>
  /\ reactions = <<>>
  /\ jobs = <<>>
  /\ awaiting = 0
  /\ hist = HistInit
  /\ syncFns = <<>>
  /\ stack = <<>>
  /\ lastRead = <<>>
  /\ lastCall = NoCall
StoreNext ==
  \/ \E n \in 1..Len(nodes) : \E i \in 1..Len(nodes[n].f) : Read(n, i)
  \/ \E n \in 1..Len(nodes) : \E i \in 1..2 : ReadStore(n, i)
SpecStore == InitStore /\ [][StoreNext]_vars

IsEscaped(cell) == cell.t = "s" /\ Len(cell.s) >= 1 /\ cell.s[1] = String_VALUE
\* the raw value of property i in the unwrapped target of the store n
RawOf(n, i) == nodes[nodes[n].f[1].n].f[i]

(***************************************************************************)
(* C34: for a lazy wrapper whose target is a reactive store, reading a     *)
(* string field whose raw stored value (in the unwrapped target) starts    *)
(* with the string-escape tag returns the literal with the one-character   *)
(* prefix removed, on every read, and leaves the raw stored value          *)
(* unchanged.                                                              *)
(***************************************************************************)
C34_StoreEscapedString ==
  [][\A n \in 1..Len(nodes) : \A i \in 1..2 :
       (ReadStore(n, i) /\ IsEscaped(RawOf(n, i)))
         => /\ lastRead'[3] = StrCell(Tail(RawOf(n, i).s))
            /\ nodes' = nodes
            /\ pc' = pc]_vars

\* the escaped string "x" has been read through the store's wrapper and is
\* still stored with its prefix
C34_Witness ==
  /\ lastRead # <<>>
  /\ nodes[lastRead[1]].kind = "store"
  /\ lastRead[2] = 1
  /\ RawOf(lastRead[1], 1) = StrCell(<<String_VALUE, 120>>)
  /\ lastRead[3] = StrCell(<<120>>)
  /\ RawOf(lastRead[1], 2) = StrCell(<<String_VALUE, String_VALUE, 120>>)

(***************************************************************************)
(* subscriptionManagerToString and subscriptionManagerFromString (lines    *)
(* 1136-1175) called one after the other.  Object 1 of the heap is a       *)
(* signal whose subscribers are tuples <<kind, element, ...>> over two     *)
(* hosts and a property name; the text written for them is parsed as it    *)
(* is, and with empty segments put in front, at the end and in between.    *)
(* getObjectById is the lookup in the root table the writer has filled.    *)
(***************************************************************************)
SubscriberTuples == {<<0, 2>>, <<1, 2, 3>>, <<2, 3, 2, 4>>, <<1, 3, 4>>}
SubsScenarios ==
  {Scn(<<Sig(0, subs), Obj("literal", <<>>), Obj("literal", <<>>), Str(<<112>>)>>, <<>>) :
     subs \in UNION {[1..n -> SubscriberTuples] : n \in 0..MaxSubs}}
Paddings == {"none", "front", "end", "between"}
Padded(text, padding) ==
  IF padding = "front" THEN <<59>> \o text
  ELSE IF padding = "end" THEN text \o <<59>>
  ELSE IF padding = "between"
  THEN LET subs == Split(text, 59)
       IN  Join([j \in 1..(2 * Len(subs) - 1) |->
                   IF j % 2 = 1 THEN subs[(j + 1) \div 2] ELSE <<>>], 59)
  ELSE text

\* the object a root id names, as getObjectById returns it
HeapCell(v) == [t |-> "h", n |-> v, s |-> <<>>]
getObjectById(r, id) ==
  IF id.nan \/ id.n < 0 \/ id.n >= Len(r) THEN Undef ELSE HeapCell(r[id.n + 1])
\* lines 1157-1174: the calls of $addSub$(subscription, prop), in order
subscriptionManagerFromString(value, r) ==
  LET segs == SegmentsIn(value)
      ids == SubIds(segs)
      subscriptions == SubTuples(segs, [j \in 1..Len(ids) |-> getObjectById(r, ids[j])])
  IN  [j \in 1..Len(subscriptions) |->
         [subscription |-> Front(subscriptions[j]), prop |-> Last(subscriptions[j])]]

CallSubsToString(v) ==
  /\ pc = "setup"
  /\ lastCall = NoCall
  /\ KindOf(v) = "signal"
  /\ LET r == subscriptionManagerToString(CtxNow, heap[v].subs)
     IN  /\ map' = r.c.map
         /\ roots' = r.c.roots
         /\ lastCall' = Called("subscriptionManagerToString", <<v>>, r.text)
  /\ UNCHANGED <<heap, decl, pc, rootIdx, objRootsLength, rootObj,
                 discoveredValues, promises, rootIdOf, settled, reactions, jobs,
                 awaiting, hist, syncFns, nodes, stack, known, lastRead>>
CallSubsFromString(padding) ==
  /\ pc = "setup"
  /\ lastCall.op = "subscriptionManagerToString"
  /\ lastCall' = [Called("subscriptionManagerFromString",
                         <<lastCall.args[1], Padded(lastCall.ret, padding)>>,
                         subscriptionManagerFromString(Padded(lastCall.ret, padding), roots))
                    EXCEPT !.prev = <<>>]
  /\ UNCHANGED <<heap, decl, pc, map, roots, rootIdx, objRootsLength, rootObj,
                 discoveredValues, promises, rootIdOf, settled, reactions, jobs,
                 awaiting, hist, syncFns, nodes, stack, known, lastRead>>
InitSubs == InitOf(SubsScenarios)
SubsNext ==
  \/ \E v \in 1..Len(heap) : CallSubsToString(v)
  \/ \E padding \in Paddings : CallSubsFromString(padding)
SpecSubs == InitSubs /\ [][SubsNext]_vars

\* the $addSub$ call that adds the subscriber sub again
AddSubFor(sub) ==
  LET tuple == [i \in 1..Len(sub) |-> IF i = 1 THEN NumCell(sub[1]) ELSE HeapCell(sub[i])]
  IN  [subscription |-> Front(tuple), prop |-> Last(tuple)]

(***************************************************************************)
(* C35: subscriptionManagerFromString applied to the text produced by      *)
(* subscriptionManagerToString adds the same subscriber tuples in the same *)
(* order (kind as integer, every other element resolved from its root id,  *)
(* last element passed as the property name); empty segments between ';'   *)
(* separators are skipped without error and add no subscriber.             *)
(***************************************************************************)
C35_SubscribersRoundTrip ==
  lastCall.op = "subscriptionManagerFromString" =>
    LET subs == heap[lastCall.args[1]].subs
    IN  lastCall.ret = [j \in 1..Len(subs) |-> AddSubFor(subs[j])]

\* two subscribers were written as "1 0 1;2 1 0 2" and parsed back from the
\* text with an empty segment between them
C35_Witness ==
  /\ lastCall.op = "subscriptionManagerFromString"
  /\ heap[1].subs = <<<<1, 2, 3>>, <<2, 3, 2, 4>>>>
  /\ lastCall.args[2] = <<49, 32, 48, 32, 49, 59, 59, 50, 32, 49, 32, 48, 32, 50>>
  /\ Len(lastCall.ret) = 2
  /\ lastCall.ret[2].prop = HeapCell(4)

(***************************************************************************)
(* A second call of $breakCircularDepsAndAwaitPromises$ on the same        *)
(* context.  The call starts over at the first root with the map and the   *)
(* root list the first call left behind; the history keeps what the first  *)
(* call left.                                                              *)
(***************************************************************************)
Left(m, r) == [map |-> m, roots |-> r]

\* lines 674-677, called once more after the first call has returned
BreakAgain ==
  /\ pc = "drained"
  /\ hist.runs = 0
  /\ pc' = "walk"
  /\ promises' = <<>>
  /\ objRootsLength' = Len(roots)
  /\ rootIdx' = 0
  /\ discoveredValues' = <<>>
  /\ hist' = [hist EXCEPT !.runs = 1, !.first = Left(map, roots)]
  /\ UNCHANGED <<heap, decl, map, roots, rootObj, rootIdOf, settled, reactions,
                 jobs, awaiting>>
  /\ UNCHANGED codecVars

RerunNext ==
  \/ WalkNext
  \/ BreakAgain

SpecRerun == InitWalk /\ [][RerunNext]_vars

SecondRunOver == pc = "drained" /\ hist.runs = 1

\* C36: when a second run of $breakCircularDepsAndAwaitPromises$ on the same
\* context has returned, the root list and the seen-state of every object
\* are what the first run left: the second run promotes no object.
C36_SecondRunChangesNothing ==
  SecondRunOver => Left(map, roots) = hist.first

=============================================================================
